---- MODULE Spec2Model ----
(***************************************************************************)
(* The Lambda authorizer of wrist-agent (lambda-authorizer/main.go):       *)
(* handler, extractToken, getExpectedToken with its token cache and        *)
(* circuit breaker, and generatePolicy.                                    *)
(*                                                                         *)
(* Strings the code inspects character by character (header names, header  *)
(* values, the SSM parameter value, tokens) are sequences of one-character *)
(* strings.  Instants and durations are integers in clock units of fifteen *)
(* seconds.  Each concurrent handler invocation is a process; one action   *)
(* is one stretch of the handler between two points where it can wait for  *)
(* tokenCache.mu or for the SSM call.                                      *)
(***************************************************************************)
EXTENDS Integers, Sequences, FiniteSets, TLC

(***************************************************************************)
(* Bounds of the model.                                                    *)
(***************************************************************************)
\* the clock stops advancing at MaxClock
MaxClock == 4
\* no SSM failure is injected once failures has reached MaxFailures
MaxFailures == 4
\* the writes of the token cache a run of the cache on its own goes through
MaxGeneration == 2
\* the evaluations of extractToken on one header map
MaxEvaluations == 2

\* the concurrent handler invocations
Procs == {1, 2}

(***************************************************************************)
(* Program constants.                                                      *)
(***************************************************************************)
ErrMissingToken == "missing_token"
ErrInvalidToken == "invalid_token"
ErrTokenMismatch == "token_mismatch"
ErrSSMFailure == "ssm_failure"

\* number of failures before opening the circuit
circuitBreakerThreshold == 3
\* 30 * time.Second, in clock units of fifteen seconds
circuitBreakerTimeout == 2
\* the configured cache TTL (TOKEN_CACHE_TTL_SECONDS=15), in clock units
cacheDuration == 1

\* the zero time.Time, before every instant of the clock
ZeroTime == 0

(***************************************************************************)
(* Strings.                                                                *)
(***************************************************************************)
UpperCase == <<"A","B","C","D","E","F","G","H","I","J","K","L","M",
               "N","O","P","Q","R","S","T","U","V","W","X","Y","Z">>
LowerCase == <<"a","b","c","d","e","f","g","h","i","j","k","l","m",
               "n","o","p","q","r","s","t","u","v","w","x","y","z">>

\* the fold of one character: an upper-case letter and its lower-case form
\* are equal under strings.EqualFold
FoldChar(c) ==
    IF \E i \in 1..26 : UpperCase[i] = c
    THEN LowerCase[CHOOSE i \in 1..26 : UpperCase[i] = c]
    ELSE c

\* strings.EqualFold
EqualFold(s, t) ==
    /\ Len(s) = Len(t)
    /\ \A i \in 1..Len(s) : FoldChar(s[i]) = FoldChar(t[i])

\* the characters strings.TrimSpace removes
WhiteSpace == {" ", "\t", "\n", "\r"}

\* strings.TrimSpace: s without its leading and trailing white space
TrimSpace(s) ==
    LET keep == {i \in 1..Len(s) : s[i] \notin WhiteSpace}
    IN  IF keep = {} THEN << >>
        ELSE LET lo == CHOOSE i \in keep : \A j \in keep : i <= j
                 hi == CHOOSE i \in keep : \A j \in keep : j <= i
             IN  SubSeq(s, lo, hi)

\* strings.HasPrefix
HasPrefix(s, prefix) ==
    /\ Len(s) >= Len(prefix)
    /\ SubSeq(s, 1, Len(prefix)) = prefix

XClientToken == <<"X","-","C","l","i","e","n","t","-","T","o","k","e","n">>
Authorization == <<"A","u","t","h","o","r","i","z","a","t","i","o","n">>
BearerPrefix == <<"B","e","a","r","e","r"," ">>

(***************************************************************************)
(* extractToken.  Go ranges over a map in an unspecified order, so with    *)
(* several keys that fold to X-Client-Token the first non-empty trimmed    *)
(* value met is any of them: the operator is the set of possible results.  *)
(***************************************************************************)
\* extractToken looking at the Authorization header first
extractToken_BearerFirst(headers) ==
    LET custom == {TrimSpace(headers[k]) :
                     k \in {key \in DOMAIN headers : EqualFold(key, XClientToken)}}
                  \ {<< >>}
    IN  IF /\ Authorization \in DOMAIN headers
           /\ HasPrefix(headers[Authorization], BearerPrefix)
           /\ TrimSpace(SubSeq(headers[Authorization], 8,
                               Len(headers[Authorization]))) # << >>
        THEN {TrimSpace(SubSeq(headers[Authorization], 8,
                               Len(headers[Authorization])))}
        ELSE IF custom # {} THEN custom ELSE {<< >>}

\* extractToken comparing the prefix with strings.EqualFold
extractToken_FoldedPrefix(headers) ==
    LET custom == {TrimSpace(headers[k]) :
                     k \in {key \in DOMAIN headers : EqualFold(key, XClientToken)}}
                  \ {<< >>}
    IN  IF custom # {} THEN custom
        ELSE IF /\ Authorization \in DOMAIN headers
                /\ Len(headers[Authorization]) >= Len(BearerPrefix)
                /\ EqualFold(SubSeq(headers[Authorization], 1, Len(BearerPrefix)),
                             BearerPrefix)
                /\ TrimSpace(SubSeq(headers[Authorization], 8,
                                    Len(headers[Authorization]))) # << >>
        THEN {TrimSpace(SubSeq(headers[Authorization], 8,
                               Len(headers[Authorization])))}
        ELSE {<< >>}

extractToken(headers) ==
    LET custom == {TrimSpace(headers[k]) :
                     k \in {key \in DOMAIN headers : EqualFold(key, XClientToken)}}
                  \ {<< >>}
    IN  IF custom # {} THEN custom
        ELSE IF /\ Authorization \in DOMAIN headers
                /\ HasPrefix(headers[Authorization], BearerPrefix)
                /\ TrimSpace(SubSeq(headers[Authorization], 8,
                                    Len(headers[Authorization]))) # << >>
        THEN {TrimSpace(SubSeq(headers[Authorization], 8,
                               Len(headers[Authorization])))}
        ELSE {<< >>}

(***************************************************************************)
(* hashToken: "user-" and the first 8 bytes of the SHA-256 digest in hex.  *)
(* The digest is tabulated for the tokens of the model.                    *)
(***************************************************************************)
\* the longest token hashToken is tried on
MaxTokenLen == 3

TokenChars == {"a", "b", "1"}

\* the tokens hashToken is tried on, the empty one among them
HashInputs == UNION {[1..n -> TokenChars] : n \in 0..MaxTokenLen}

\* sha256.Sum256([]byte(token)), its first 8 bytes
Sum256Head(t) ==
    CASE t = << >>           -> <<227, 176, 196, 66, 152, 252, 28, 20>>
      [] t = <<"a">>         -> <<202, 151, 129, 18, 202, 27, 189, 202>>
      [] t = <<"b">>         -> <<62, 35, 232, 22, 0, 57, 89, 74>>
      [] t = <<"1">>         -> <<107, 134, 178, 115, 255, 52, 252, 225>>
      [] t = <<"a","a">>     -> <<150, 27, 109, 211, 237, 227, 203, 142>>
      [] t = <<"a","b">>     -> <<251, 142, 32, 252, 46, 76, 63, 36>>
      [] t = <<"a","1">>     -> <<245, 95, 241, 111, 102, 244, 51, 96>>
      [] t = <<"b","a">>     -> <<151, 15, 81, 156, 44, 173, 188, 239>>
      [] t = <<"b","b">>     -> <<59, 100, 219, 149, 203, 85, 199, 99>>
      [] t = <<"b","1">>     -> <<125, 201, 111, 119, 108, 132, 35, 229>>
      [] t = <<"1","a">>     -> <<167, 63, 207, 51, 150, 64, 146, 146>>
      [] t = <<"1","b">>     -> <<44, 175, 118, 122, 160, 161, 220, 66>>
      [] t = <<"1","1">>     -> <<79, 200, 43, 38, 174, 203, 71, 210>>
      [] t = <<"a","a","a">> -> <<152, 52, 135, 109, 207, 176, 92, 177>>
      [] t = <<"a","a","b">> -> <<56, 118, 14, 171, 182, 102, 232, 230>>
      [] t = <<"a","a","1">> -> <<133, 71, 142, 151, 138, 68, 19, 17>>
      [] t = <<"a","b","a">> -> <<225, 36, 173, 204, 225, 251, 47, 136>>
      [] t = <<"a","b","b">> -> <<113, 94, 223, 139, 168, 114, 148, 32>>
      [] t = <<"a","b","1">> -> <<202, 91, 168, 124, 147, 212, 47, 138>>
      [] t = <<"a","1","a">> -> <<226, 39, 172, 77, 214, 153, 97, 152>>
      [] t = <<"a","1","b">> -> <<172, 238, 36, 15, 154, 40, 27, 1>>
      [] t = <<"a","1","1">> -> <<234, 31, 240, 102, 25, 78, 156, 229>>
      [] t = <<"b","a","a">> -> <<102, 94, 218, 230, 213, 38, 102, 209>>
      [] t = <<"b","a","b">> -> <<236, 221, 151, 64, 92, 121, 180, 8>>
      [] t = <<"b","a","1">> -> <<38, 201, 90, 185, 53, 114, 114, 168>>
      [] t = <<"b","b","a">> -> <<50, 78, 141, 87, 22, 175, 228, 119>>
      [] t = <<"b","b","b">> -> <<62, 116, 75, 157, 195, 147, 137, 186>>
      [] t = <<"b","b","1">> -> <<153, 174, 89, 112, 90, 120, 152, 200>>
      [] t = <<"b","1","a">> -> <<14, 101, 69, 16, 49, 236, 56, 35>>
      [] t = <<"b","1","b">> -> <<223, 23, 139, 201, 96, 92, 255, 36>>
      [] t = <<"b","1","1">> -> <<129, 1, 209, 104, 147, 243, 66, 95>>
      [] t = <<"1","a","a">> -> <<157, 218, 161, 81, 240, 120, 44, 0>>
      [] t = <<"1","a","b">> -> <<26, 87, 81, 190, 138, 150, 229, 151>>
      [] t = <<"1","a","1">> -> <<66, 153, 42, 6, 115, 89, 230, 204>>
      [] t = <<"1","b","a">> -> <<151, 1, 146, 62, 238, 164, 17, 34>>
      [] t = <<"1","b","b">> -> <<52, 142, 109, 163, 81, 10, 197, 10>>
      [] t = <<"1","b","1">> -> <<125, 44, 249, 242, 186, 71, 216, 19>>
      [] t = <<"1","1","a">> -> <<174, 49, 2, 168, 190, 218, 52, 7>>
      [] t = <<"1","1","b">> -> <<168, 1, 94, 107, 70, 149, 100, 196>>
      [] t = <<"1","1","1">> -> <<246, 224, 161, 226, 172, 65, 148, 90>>

HexDigits == <<"0","1","2","3","4","5","6","7","8","9","a","b","c","d","e","f">>

\* hex.EncodeToString writing a byte below 16 as one digit
RECURSIVE EncodeToString_NoPadding(_)
EncodeToString_NoPadding(bytes) ==
    IF bytes = << >>
    THEN << >>
    ELSE (IF bytes[1] < 16
          THEN <<HexDigits[bytes[1] + 1]>>
          ELSE <<HexDigits[(bytes[1] \div 16) + 1], HexDigits[(bytes[1] % 16) + 1]>>)
         \o EncodeToString_NoPadding(Tail(bytes))

\* hex.EncodeToString: two lower-case digits for each byte
RECURSIVE EncodeToString(_)
EncodeToString(bytes) ==
    IF bytes = << >>
    THEN << >>
    ELSE <<HexDigits[(bytes[1] \div 16) + 1], HexDigits[(bytes[1] % 16) + 1]>>
         \o EncodeToString(Tail(bytes))

\* the characters s as one string
RECURSIVE Text(_)
Text(s) == IF s = << >> THEN "" ELSE s[1] \o Text(Tail(s))

Sha256Hex8(t) == Text(EncodeToString(Sum256Head(t)))

UserPrefix == <<"u","s","e","r","-">>

hashToken(t) == UserPrefix \o EncodeToString(Sum256Head(t))

\* hashToken as the string handler passes on, worked out once for each
\* token of the set S
RECURSIVE principalsOf(_)
principalsOf(S) ==
    IF S = {}
    THEN << >>
    ELSE LET t == CHOOSE x \in S : TRUE
         IN  (t :> Text(hashToken(t))) @@ principalsOf(S \ {t})

\* principalID := hashToken(token), for each token of the model
principalIDs == principalsOf(HashInputs)

(***************************************************************************)
(* generatePolicy.                                                         *)
(***************************************************************************)
\* generatePolicy echoing a fixed resource instead of the request's
generatePolicy_WildcardResource(principalID, effect, resource, context) ==
    [PrincipalID |-> principalID,
     Statement   |-> IF effect # "" /\ resource # ""
                     THEN << [Action   |-> <<"execute-api:Invoke">>,
                              Effect   |-> effect,
                              Resource |-> <<"*">>] >>
                     ELSE << >>,
     Context     |-> context]

generatePolicy(principalID, effect, resource, context) ==
    [PrincipalID |-> principalID,
     Statement   |-> IF effect # "" /\ resource # ""
                     THEN << [Action   |-> <<"execute-api:Invoke">>,
                              Effect   |-> effect,
                              Resource |-> <<resource>>] >>
                     ELSE << >>,
     Context     |-> context]

(***************************************************************************)
(* CircuitBreaker.                                                         *)
(***************************************************************************)
\* recordFailure no longer counting once the threshold is reached
recordFailure_Saturating(cb, t) ==
    [failures    |-> IF cb.failures >= circuitBreakerThreshold
                     THEN cb.failures ELSE cb.failures + 1,
     lastFailure |-> t]

\* recordFailure at instant t
recordFailure(cb, t) == [failures |-> cb.failures + 1, lastFailure |-> t]

\* reset closing the breaker only if it was at the threshold
reset_OnlyIfOpen(cb) ==
    IF cb.failures >= circuitBreakerThreshold THEN [cb EXCEPT !.failures = 0] ELSE cb

\* reset
reset(cb) == [cb EXCEPT !.failures = 0]

\* isOpen comparing the count with <= instead of <
isOpenBelowThreshold_OffByOne(cb) == cb.failures <= circuitBreakerThreshold

\* isOpen, the check under the read lock: below the threshold it is closed
isOpenBelowThreshold(cb) == cb.failures < circuitBreakerThreshold

\* isOpen still open when exactly circuitBreakerTimeout has passed
isOpenWithinTimeout_Inclusive(captured, t) == t - captured <= circuitBreakerTimeout

\* isOpen, time.Since(lastFailureTime) < circuitBreakerTimeout at instant t
isOpenWithinTimeout(captured, t) == t - captured < circuitBreakerTimeout

\* isOpen answering false after the timeout without clearing the count
isOpenReset_KeepsCount(cb, t) == cb

\* isOpen clearing the count without looking again under the write lock
isOpenReset_NoRecheck(cb, t) == [cb EXCEPT !.failures = 0]

\* isOpen, the re-check and reset under the write lock at instant t
isOpenReset(cb, t) ==
    IF /\ cb.failures >= circuitBreakerThreshold
       /\ t - cb.lastFailure >= circuitBreakerTimeout
    THEN [cb EXCEPT !.failures = 0]
    ELSE cb

\* the lines the breaker's functions write with log.Printf
LogOpened == "Circuit breaker OPENED"
LogReset == "Circuit breaker RESET after timeout"
LogClosed == "Circuit breaker CLOSED"

\* recordFailure writing its line on every failure at or past the threshold
recordFailureLogged_LevelTriggered(cb) ==
    IF cb.failures + 1 >= circuitBreakerThreshold THEN <<LogOpened>> ELSE << >>

\* recordFailure, what it logs: wasOpen is taken before the increment
recordFailureLogged(cb) ==
    LET wasOpen == cb.failures >= circuitBreakerThreshold
    IN  IF ~wasOpen /\ cb.failures + 1 >= circuitBreakerThreshold
        THEN <<LogOpened>>
        ELSE << >>

\* reset, what it logs
resetLogged(cb) == IF cb.failures > 0 THEN <<LogClosed>> ELSE << >>

\* isOpen, what it logs under the write lock at instant t
isOpenResetLogged(cb, t) ==
    IF /\ cb.failures >= circuitBreakerThreshold
       /\ t - cb.lastFailure >= circuitBreakerTimeout
    THEN <<LogReset>>
    ELSE << >>

(***************************************************************************)
(* The inputs.                                                             *)
(***************************************************************************)
TokA == <<"a">>
TokB == <<"b">>

HeaderMaps ==
    { << >>,
      XClientToken :> TokA,
      <<"x","-","c","l","i","e","n","t","-","t","o","k","e","n">> :> <<" ","b"," ">>,
      XClientToken :> <<" "," ">>,
      Authorization :> (BearerPrefix \o TokA),
      Authorization :> <<"B","e","a","r","e","r">>,
      Authorization :> <<"b","e","a","r","e","r"," ","a">>,
      <<"a","u","t","h","o","r","i","z","a","t","i","o","n">> :> (BearerPrefix \o TokA),
      (XClientToken :> <<" ">>) @@ (Authorization :> (BearerPrefix \o TokB)),
      (XClientToken :> TokA) @@ (Authorization :> (BearerPrefix \o TokB)),
      (XClientToken :> TokA) @@
        (<<"X","-","C","L","I","E","N","T","-","T","O","K","E","N">> :> TokB) }

MethodArns == {"arn:aws:execute-api:us-west-2:123456789:api-id/stage/POST/invoke", ""}

\* the values the SSM parameter can hold when a GetParameter call reads it
ParamValues == {TokA, <<" ","b","\n">>, << >>, <<" ">>}

\* what one GetParameter call can give back: an error (transport failure,
\* timeout of the 3 s context, cancellation) or the parameter's value
SSMError == [err |-> TRUE, value |-> << >>]
SSMValue(v) == [err |-> FALSE, value |-> v]

\* GetParameter ended by the 3 s deadline of ssmCtx, or by the caller's
\* context being cancelled
SSMDeadlineExceeded ==
    [err |-> TRUE, value |-> << >>, cause |-> "context deadline exceeded"]
SSMCanceled ==
    [err |-> TRUE, value |-> << >>, cause |-> "context canceled"]

\* what getExpectedToken returns, with the return statement it left by
NoReturn == [token |-> << >>, err |-> FALSE, site |-> "none"]
Return(t, e, s) == [token |-> t, err |-> e, site |-> s]

\* what handler returns: the response generatePolicy built and the error,
\* with the decision handler passed to generatePolicy
Returned(principalID, effect, arn, context) ==
    [decision |-> [principalID |-> principalID, effect |-> effect, context |-> context],
     resp     |-> generatePolicy(principalID, effect, arn, context),
     err      |-> "nil"]
NoResponse ==
    [decision |-> [principalID |-> "", effect |-> "", context |-> << >>],
     resp     |-> generatePolicy("", "", "", << >>),
     err      |-> "none"]

VARIABLES
    clock,            \* time.Now()
    tokenCache,       \* tokenCache.token, tokenCache.expiration
    cacheMu,          \* tokenCache.mu: the process holding the write lock, or 0
    circuitBreaker,   \* circuitBreaker.failures, circuitBreaker.lastFailure
    pc,               \* where each invocation stands
    token,            \* handler: token
    methodArn,        \* handler: event.MethodArn
    now,              \* getExpectedToken: now
    lastFailureTime,  \* isOpen: lastFailureTime
    expected,         \* handler: expectedToken, err, and the return site
    response,         \* handler: the returned response and error
    generation,       \* how many times each field of tokenCache was written
    snapshot,         \* getExpectedToken: token, expiration (lines 232-233)
    eventHeaders,     \* extractToken: event.Headers
    extracted,        \* extractToken: what its calls on eventHeaders returned
    env,              \* getCacheDuration: os.Getenv("TOKEN_CACHE_TTL_SECONDS")
    duration,         \* getCacheDuration: what it returned
    logged,           \* what the breaker wrote to the log in the latest step
    hashArg,          \* hashToken: token
    hashes            \* hashToken: what its calls on hashArg returned

vars == <<clock, tokenCache, cacheMu, circuitBreaker, pc, token,
          methodArn, now, lastFailureTime, expected, response,
          generation, snapshot, eventHeaders, extracted, env, duration,
          logged, hashArg, hashes>>

\* the variables of the functions that are modelled on their own
apart == <<eventHeaders, extracted, env, duration, hashArg, hashes>>

\* the variables the handler's steps and the breaker's steps leave alone
aside == <<generation, snapshot, apart>>

shared == <<clock, tokenCache, cacheMu, circuitBreaker>>

\* the step writes no line of the breaker to the log
Silent == logged' = << >>

\* the locals of a reader before it has read anything
NoSnapshot ==
    [token |-> << >>, expiration |-> ZeroTime, tokenGen |-> 0, expirationGen |-> 0]

(***************************************************************************)
(* handler, from the return of getExpectedToken on.                        *)
(***************************************************************************)
\* handler failing open: an SSM failure lets the request through
handlerValidate_FailOpen(tok, arn, ret) ==
    IF ~ret.err /\ tok # ret.token
    THEN Returned("user", "Deny", arn, [errorType |-> ErrTokenMismatch])
    ELSE Returned(principalIDs[tok], "Allow", arn, [authenticated |-> "true"])

\* handler using the raw token as the principal
handlerValidate_RawPrincipal(tok, arn, ret) ==
    IF ret.err
    THEN Returned("user", "Deny", arn, [errorType |-> ErrSSMFailure])
    ELSE IF tok # ret.token
    THEN Returned("user", "Deny", arn, [errorType |-> ErrTokenMismatch])
    ELSE Returned(tok, "Allow", arn, [authenticated |-> "true"])

\* handler ignoring err: the empty token of a failed call is a mismatch
handlerValidate_ErrIgnored(tok, arn, ret) ==
    IF tok # ret.token
    THEN Returned("user", "Deny", arn, [errorType |-> ErrTokenMismatch])
    ELSE Returned(principalIDs[tok], "Allow", arn, [authenticated |-> "true"])

\* handler reporting a mismatch as invalid_token
handlerValidate_InvalidToken(tok, arn, ret) ==
    IF ret.err
    THEN Returned("user", "Deny", arn, [errorType |-> ErrSSMFailure])
    ELSE IF tok # ret.token
    THEN Returned("user", "Deny", arn, [errorType |-> ErrInvalidToken])
    ELSE Returned(principalIDs[tok], "Allow", arn, [authenticated |-> "true"])

\* handler passing the error of getExpectedToken on to its caller
handlerValidate_ErrPropagated(tok, arn, ret) ==
    IF ret.err
    THEN [decision |-> [principalID |-> "", effect |-> "", context |-> << >>],
          resp     |-> generatePolicy("", "", "", << >>),
          err      |-> "failed to retrieve expected token"]
    ELSE IF tok # ret.token
    THEN Returned("user", "Deny", arn, [errorType |-> ErrTokenMismatch])
    ELSE Returned(principalIDs[tok], "Allow", arn, [authenticated |-> "true"])

handlerValidate(tok, arn, ret) ==
    IF ret.err
    THEN Returned("user", "Deny", arn, [errorType |-> ErrSSMFailure])
    ELSE IF tok # ret.token
    THEN Returned("user", "Deny", arn, [errorType |-> ErrTokenMismatch])
    ELSE Returned(principalIDs[tok], "Allow", arn, [authenticated |-> "true"])

\* handler when extractToken gave no token
handlerMissing(arn) ==
    Returned("user", "Deny", arn, [errorType |-> ErrMissingToken])

\* getExpectedToken returns ret to handler, which validates and returns
Finish(p, ret) ==
    /\ expected' = [expected EXCEPT ![p] = ret]
    /\ response' = [response EXCEPT ![p] = handlerValidate(token[p], methodArn[p], ret)]
    /\ pc' = [pc EXCEPT ![p] = "done"]
    /\ now' = [now EXCEPT ![p] = ZeroTime]
    /\ lastFailureTime' = [lastFailureTime EXCEPT ![p] = ZeroTime]

Init ==
    /\ clock = 0
    /\ tokenCache = [token |-> << >>, expiration |-> ZeroTime]
    /\ cacheMu = 0
    /\ circuitBreaker = [failures |-> 0, lastFailure |-> ZeroTime]
    /\ pc = [p \in Procs |-> "idle"]
    /\ token = [p \in Procs |-> << >>]
    /\ methodArn = [p \in Procs |-> ""]
    /\ now = [p \in Procs |-> ZeroTime]
    /\ lastFailureTime = [p \in Procs |-> ZeroTime]
    /\ expected = [p \in Procs |-> NoReturn]
    /\ response = [p \in Procs |-> NoResponse]
    /\ generation = [token |-> 0, expiration |-> 0]
    /\ snapshot = [p \in Procs |-> NoSnapshot]
    /\ eventHeaders = << >>
    /\ extracted = << >>
    /\ env = << >>
    /\ duration = << >>
    /\ logged = << >>
    /\ hashArg = << >>
    /\ hashes = << >>

(***************************************************************************)
(* The environment: time passes.                                           *)
(***************************************************************************)
Tick ==
    /\ clock < MaxClock
    /\ clock' = clock + 1
    /\ UNCHANGED <<tokenCache, cacheMu, circuitBreaker, pc, token,
                   methodArn, now, lastFailureTime, expected, response>>

(***************************************************************************)
(* handler, lines 88-98, and getExpectedToken up to its first lock.        *)
(***************************************************************************)
\* handler fetching the expected token before it looks at the request's
Invoke_FetchFirst(p, event) ==
    /\ pc[p] \in {"idle", "done"}
    /\ \E tok \in extractToken(event.Headers) :
         /\ token' = [token EXCEPT ![p] = tok]
         /\ methodArn' = [methodArn EXCEPT ![p] = event.MethodArn]
         /\ expected' = [expected EXCEPT ![p] = NoReturn]
         /\ response' = [response EXCEPT ![p] = NoResponse]
         /\ pc' = [pc EXCEPT ![p] = "read"]
         /\ now' = [now EXCEPT ![p] = clock]
    /\ UNCHANGED <<shared, lastFailureTime>>

Invoke(p, event) ==
    /\ pc[p] \in {"idle", "done"}
    /\ \E tok \in extractToken(event.Headers) :
         /\ token' = [token EXCEPT ![p] = tok]
         /\ methodArn' = [methodArn EXCEPT ![p] = event.MethodArn]
         /\ expected' = [expected EXCEPT ![p] = NoReturn]
         /\ IF tok = << >>
            THEN /\ response' = [response EXCEPT ![p] = handlerMissing(event.MethodArn)]
                 /\ pc' = [pc EXCEPT ![p] = "done"]
                 /\ now' = now
            ELSE /\ response' = [response EXCEPT ![p] = NoResponse]
                 /\ pc' = [pc EXCEPT ![p] = "read"]
                 /\ now' = [now EXCEPT ![p] = clock]
    /\ UNCHANGED <<shared, lastFailureTime>>

(***************************************************************************)
(* getExpectedToken, lines 230-238: the read of the pair under the read    *)
(* lock, and the return of a fresh token.                                  *)
(***************************************************************************)
\* getExpectedToken asking the breaker before it serves a fresh token
CacheRead_BreakerFirst(p) ==
    /\ pc[p] = "read"
    /\ cacheMu = 0
    /\ IF /\ tokenCache.token # << >>
          /\ now[p] < tokenCache.expiration
          /\ isOpenBelowThreshold(circuitBreaker)
       THEN Finish(p, Return(tokenCache.token, FALSE, "fresh"))
       ELSE /\ pc' = [pc EXCEPT ![p] = "isOpen"]
            /\ UNCHANGED <<now, lastFailureTime, expected, response>>
    /\ UNCHANGED <<shared, token, methodArn>>

\* getExpectedToken returning whatever is cached, expired or not
CacheRead_IgnoresExpiry(p) ==
    /\ pc[p] = "read"
    /\ cacheMu = 0
    /\ IF tokenCache.token # << >>
       THEN Finish(p, Return(tokenCache.token, FALSE, "fresh"))
       ELSE /\ pc' = [pc EXCEPT ![p] = "isOpen"]
            /\ UNCHANGED <<now, lastFailureTime, expected, response>>
    /\ UNCHANGED <<shared, token, methodArn>>

CacheRead(p) ==
    /\ pc[p] = "read"
    /\ cacheMu = 0
    /\ IF tokenCache.token # << >> /\ now[p] < tokenCache.expiration
       THEN Finish(p, Return(tokenCache.token, FALSE, "fresh"))
       ELSE /\ pc' = [pc EXCEPT ![p] = "isOpen"]
            /\ UNCHANGED <<now, lastFailureTime, expected, response>>
    /\ UNCHANGED <<shared, token, methodArn>>

(***************************************************************************)
(* CircuitBreaker.isOpen, lines 163-190, in its three stretches.           *)
(***************************************************************************)
IsOpenRead(p) ==
    /\ pc[p] = "isOpen"
    /\ IF isOpenBelowThreshold(circuitBreaker)
       THEN /\ pc' = [pc EXCEPT ![p] = "lock"]
            /\ UNCHANGED lastFailureTime
       ELSE /\ pc' = [pc EXCEPT ![p] = "since"]
            /\ lastFailureTime' = [lastFailureTime EXCEPT ![p] = circuitBreaker.lastFailure]
    /\ UNCHANGED <<shared, token, methodArn, now, expected, response>>

IsOpenSince(p) ==
    /\ pc[p] = "since"
    /\ IF isOpenWithinTimeout(lastFailureTime[p], clock)
       THEN pc' = [pc EXCEPT ![p] = "open"]
       ELSE pc' = [pc EXCEPT ![p] = "reset"]
    /\ lastFailureTime' = [lastFailureTime EXCEPT ![p] = ZeroTime]
    /\ UNCHANGED <<shared, token, methodArn, now, expected, response>>

\* isOpen answering true when it finds under the write lock that the count
\* is no longer at the threshold
IsOpenReset_LoserOpen(p) ==
    /\ pc[p] = "reset"
    /\ circuitBreaker' = isOpenReset(circuitBreaker, clock)
    /\ logged' = isOpenResetLogged(circuitBreaker, clock)
    /\ pc' = [pc EXCEPT ![p] = IF circuitBreaker.failures >= circuitBreakerThreshold
                                THEN "lock" ELSE "open"]
    /\ UNCHANGED <<clock, tokenCache, cacheMu, token, methodArn, now,
                   lastFailureTime, expected, response>>

IsOpenReset(p) ==
    /\ pc[p] = "reset"
    /\ circuitBreaker' = isOpenReset(circuitBreaker, clock)
    /\ logged' = isOpenResetLogged(circuitBreaker, clock)
    /\ pc' = [pc EXCEPT ![p] = "lock"]
    /\ UNCHANGED <<clock, tokenCache, cacheMu, token, methodArn, now,
                   lastFailureTime, expected, response>>

(***************************************************************************)
(* getExpectedToken, lines 241-252: the circuit is open.                   *)
(***************************************************************************)
\* getExpectedToken failing whenever the circuit is open
OpenRead_NoStale(p) ==
    /\ pc[p] = "open"
    /\ cacheMu = 0
    /\ Finish(p, Return(<< >>, TRUE, "errOpen"))
    /\ UNCHANGED <<shared, token, methodArn>>

\* getExpectedToken letting the caller's credential pass when the circuit
\* is open and nothing is cached
OpenRead_FailOpen(p) ==
    /\ pc[p] = "open"
    /\ cacheMu = 0
    /\ IF tokenCache.token # << >>
       THEN Finish(p, Return(tokenCache.token, FALSE, "staleOpen"))
       ELSE Finish(p, Return(token[p], FALSE, "errOpen"))
    /\ UNCHANGED <<shared, token, methodArn>>

\* getExpectedToken giving the stale token it serves a new expiration
OpenRead_ExtendsExpiry(p) ==
    /\ pc[p] = "open"
    /\ cacheMu = 0
    /\ IF tokenCache.token # << >>
       THEN /\ Finish(p, Return(tokenCache.token, FALSE, "staleOpen"))
            /\ tokenCache' = [tokenCache EXCEPT !.expiration = clock + cacheDuration]
       ELSE /\ Finish(p, Return(<< >>, TRUE, "errOpen"))
            /\ tokenCache' = tokenCache
    /\ UNCHANGED <<clock, cacheMu, circuitBreaker, token, methodArn>>

OpenRead(p) ==
    /\ pc[p] = "open"
    /\ cacheMu = 0
    /\ IF tokenCache.token # << >>
       THEN Finish(p, Return(tokenCache.token, FALSE, "staleOpen"))
       ELSE Finish(p, Return(<< >>, TRUE, "errOpen"))
    /\ UNCHANGED <<shared, token, methodArn>>

(***************************************************************************)
(* getExpectedToken, lines 254-271: the write lock, the second check and   *)
(* the start of the GetParameter call.                                     *)
(***************************************************************************)
\* getExpectedToken without the second look at the cache under the write lock
CacheLock_NoRecheck(p) ==
    /\ pc[p] = "lock"
    /\ cacheMu = 0
    /\ cacheMu' = p
    /\ pc' = [pc EXCEPT ![p] = "fetching"]
    /\ UNCHANGED <<now, lastFailureTime, expected, response>>
    /\ UNCHANGED <<clock, tokenCache, circuitBreaker, token, methodArn>>

CacheLock(p) ==
    /\ pc[p] = "lock"
    /\ cacheMu = 0
    /\ IF tokenCache.token # << >> /\ now[p] < tokenCache.expiration
       THEN /\ Finish(p, Return(tokenCache.token, FALSE, "recheck"))
            /\ UNCHANGED cacheMu
       ELSE /\ cacheMu' = p
            /\ pc' = [pc EXCEPT ![p] = "fetching"]
            /\ UNCHANGED <<now, lastFailureTime, expected, response>>
    /\ UNCHANGED <<clock, tokenCache, circuitBreaker, token, methodArn>>

(***************************************************************************)
(* getExpectedToken, lines 268-300: GetParameter returns out, an error or  *)
(* the value the parameter holds by then, and the call runs to its end.    *)
(***************************************************************************)
\* getExpectedToken storing the trimmed value before it looks whether it is empty
FetchReturn_CachesEmpty(p, out) ==
    /\ pc[p] = "fetching"
    /\ cacheMu = p
    /\ out.err => circuitBreaker.failures < MaxFailures
    /\ cacheMu' = 0
    /\ IF out.err
       THEN /\ circuitBreaker' = recordFailure(circuitBreaker, clock)
            /\ logged' = recordFailureLogged(circuitBreaker)
            /\ tokenCache' = tokenCache
            /\ IF tokenCache.token # << >>
               THEN Finish(p, Return(tokenCache.token, FALSE, "staleErr"))
               ELSE Finish(p, Return(<< >>, TRUE, "errFetch"))
       ELSE /\ circuitBreaker' = reset(circuitBreaker)
            /\ logged' = resetLogged(circuitBreaker)
            /\ tokenCache' = [token      |-> TrimSpace(out.value),
                              expiration |-> clock + cacheDuration]
            /\ IF TrimSpace(out.value) = << >>
               THEN Finish(p, Return(<< >>, TRUE, "errEmpty"))
               ELSE Finish(p, Return(TrimSpace(out.value), FALSE, "refreshed"))
    /\ UNCHANGED <<clock, token, methodArn>>

\* getExpectedToken not counting a fetch that its context ended
FetchReturn_ContextUncounted(p, out) ==
    /\ pc[p] = "fetching"
    /\ cacheMu = p
    /\ out.err => circuitBreaker.failures < MaxFailures
    /\ cacheMu' = 0
    /\ IF out.err
       THEN /\ circuitBreaker' = IF out \in {SSMDeadlineExceeded, SSMCanceled}
                                 THEN circuitBreaker
                                 ELSE recordFailure(circuitBreaker, clock)
            /\ logged' = IF out \in {SSMDeadlineExceeded, SSMCanceled}
                          THEN << >>
                          ELSE recordFailureLogged(circuitBreaker)
            /\ tokenCache' = tokenCache
            /\ IF tokenCache.token # << >>
               THEN Finish(p, Return(tokenCache.token, FALSE, "staleErr"))
               ELSE Finish(p, Return(<< >>, TRUE, "errFetch"))
       ELSE /\ circuitBreaker' = reset(circuitBreaker)
            /\ logged' = resetLogged(circuitBreaker)
            /\ IF TrimSpace(out.value) = << >>
               THEN /\ tokenCache' = tokenCache
                    /\ Finish(p, Return(<< >>, TRUE, "errEmpty"))
               ELSE /\ tokenCache' = [token      |-> TrimSpace(out.value),
                                      expiration |-> clock + cacheDuration]
                    /\ Finish(p, Return(TrimSpace(out.value), FALSE, "refreshed"))
    /\ UNCHANGED <<clock, token, methodArn>>

\* getExpectedToken going back for another GetParameter call after an error
FetchReturn_Retry(p, out) ==
    /\ pc[p] = "fetching"
    /\ cacheMu = p
    /\ out.err => circuitBreaker.failures < MaxFailures
    /\ cacheMu' = 0
    /\ IF out.err
       THEN /\ circuitBreaker' = recordFailure(circuitBreaker, clock)
            /\ logged' = recordFailureLogged(circuitBreaker)
            /\ tokenCache' = tokenCache
            /\ pc' = [pc EXCEPT ![p] = "lock"]
            /\ UNCHANGED <<now, lastFailureTime, expected, response>>
       ELSE /\ circuitBreaker' = reset(circuitBreaker)
            /\ logged' = resetLogged(circuitBreaker)
            /\ IF TrimSpace(out.value) = << >>
               THEN /\ tokenCache' = tokenCache
                    /\ Finish(p, Return(<< >>, TRUE, "errEmpty"))
               ELSE /\ tokenCache' = [token      |-> TrimSpace(out.value),
                                      expiration |-> clock + cacheDuration]
                    /\ Finish(p, Return(TrimSpace(out.value), FALSE, "refreshed"))
    /\ UNCHANGED <<clock, token, methodArn>>

\* getExpectedToken returning from a failed fetch with the write lock held
FetchReturn_ErrKeepsLock(p, out) ==
    /\ pc[p] = "fetching"
    /\ cacheMu = p
    /\ out.err => circuitBreaker.failures < MaxFailures
    /\ cacheMu' = IF out.err THEN p ELSE 0
    /\ IF out.err
       THEN /\ circuitBreaker' = recordFailure(circuitBreaker, clock)
            /\ logged' = recordFailureLogged(circuitBreaker)
            /\ tokenCache' = tokenCache
            /\ IF tokenCache.token # << >>
               THEN Finish(p, Return(tokenCache.token, FALSE, "staleErr"))
               ELSE Finish(p, Return(<< >>, TRUE, "errFetch"))
       ELSE /\ circuitBreaker' = reset(circuitBreaker)
            /\ logged' = resetLogged(circuitBreaker)
            /\ IF TrimSpace(out.value) = << >>
               THEN /\ tokenCache' = tokenCache
                    /\ Finish(p, Return(<< >>, TRUE, "errEmpty"))
               ELSE /\ tokenCache' = [token      |-> TrimSpace(out.value),
                                      expiration |-> clock + cacheDuration]
                    /\ Finish(p, Return(TrimSpace(out.value), FALSE, "refreshed"))
    /\ UNCHANGED <<clock, token, methodArn>>

FetchReturn(p, out) ==
    /\ pc[p] = "fetching"
    /\ cacheMu = p
    /\ out.err => circuitBreaker.failures < MaxFailures
    /\ cacheMu' = 0
    /\ IF out.err
       THEN /\ circuitBreaker' = recordFailure(circuitBreaker, clock)
            /\ logged' = recordFailureLogged(circuitBreaker)
            /\ tokenCache' = tokenCache
            /\ IF tokenCache.token # << >>
               THEN Finish(p, Return(tokenCache.token, FALSE, "staleErr"))
               ELSE Finish(p, Return(<< >>, TRUE, "errFetch"))
       ELSE /\ circuitBreaker' = reset(circuitBreaker)
            /\ logged' = resetLogged(circuitBreaker)
            /\ IF TrimSpace(out.value) = << >>
               THEN /\ tokenCache' = tokenCache
                    /\ Finish(p, Return(<< >>, TRUE, "errEmpty"))
               ELSE /\ tokenCache' = [token      |-> TrimSpace(out.value),
                                      expiration |-> clock + cacheDuration]
                    /\ Finish(p, Return(TrimSpace(out.value), FALSE, "refreshed"))
    /\ UNCHANGED <<clock, token, methodArn>>

Outputs ==
    {SSMError, SSMDeadlineExceeded, SSMCanceled}
        \cup {SSMValue(v) : v \in ParamValues}

Events == [Headers : HeaderMaps, MethodArn : MethodArns]

\* the steps of the invocations procs, the requests being drawn from events
Handlers(procs, events) ==
    \/ Tick /\ Silent /\ UNCHANGED aside
    \/ \E p \in procs, event \in events : Invoke(p, event) /\ Silent /\ UNCHANGED aside
    \/ \E p \in procs : CacheRead(p) /\ Silent /\ UNCHANGED aside
    \/ \E p \in procs : IsOpenRead(p) /\ Silent /\ UNCHANGED aside
    \/ \E p \in procs : IsOpenSince(p) /\ Silent /\ UNCHANGED aside
    \/ \E p \in procs : IsOpenReset(p) /\ UNCHANGED aside
    \/ \E p \in procs : OpenRead(p) /\ Silent /\ UNCHANGED aside
    \/ \E p \in procs : CacheLock(p) /\ Silent /\ UNCHANGED aside
    \/ \E p \in procs, out \in Outputs : FetchReturn(p, out) /\ UNCHANGED aside

(***************************************************************************)
(* lambda.Start(handler): the Lambda runtime hands one execution           *)
(* environment one request at a time, so the invocations of one process    *)
(* follow each other.                                                      *)
(***************************************************************************)
Next == Handlers({1}, Events)

Spec == Init /\ [][Next]_vars

(***************************************************************************)
(* The handler called concurrently on the same tokenCache and              *)
(* circuitBreaker, as the package's concurrency tests call its parts.      *)
(***************************************************************************)
ConcurrentEvents ==
    [Headers   : {XClientToken :> TokA},
     MethodArn : {"arn:aws:execute-api:us-west-2:123456789:api-id/stage/POST/invoke"}]

ConcurrentNext == Handlers(Procs, ConcurrentEvents)

ConcurrentSpec == Init /\ [][ConcurrentNext]_vars

\* the steps of the invocation p once it has a credential to check
Runs(p) ==
    \/ CacheRead(p) /\ Silent /\ UNCHANGED aside
    \/ IsOpenRead(p) /\ Silent /\ UNCHANGED aside
    \/ IsOpenSince(p) /\ Silent /\ UNCHANGED aside
    \/ IsOpenReset(p) /\ UNCHANGED aside
    \/ OpenRead(p) /\ Silent /\ UNCHANGED aside
    \/ CacheLock(p) /\ Silent /\ UNCHANGED aside
    \/ \E out \in Outputs : FetchReturn(p, out) /\ UNCHANGED aside

\* The goroutines are scheduled fairly, GetParameter returns within its
\* context's three seconds, and a goroutine waiting in RLock() or Lock() is
\* not passed over for ever: sync.RWMutex lets the waiting readers in when
\* the writer unlocks, and its sync.Mutex hands the lock to a starving
\* writer.
FairConcurrentSpec ==
    /\ ConcurrentSpec
    /\ \A p \in Procs : SF_vars(Runs(p))

(***************************************************************************)
(* The circuit breaker called on its own, as TestCircuitBreaker_OpenAndClose *)
(* and TestCircuitBreaker_Timeout call it: isOpen, recordFailure and reset *)
(* in any order, with time passing in between.  isOpen runs through the    *)
(* same three stretches as inside getExpectedToken; it has answered false  *)
(* when its caller stands at "lock" and true when it stands at "open".     *)
(***************************************************************************)
\* the caller stands between two calls on the breaker
BetweenCalls(p) == pc[p] \in {"idle", "lock", "open"}

CallIsOpen(p) ==
    /\ BetweenCalls(p)
    /\ pc' = [pc EXCEPT ![p] = "isOpen"]
    /\ UNCHANGED <<shared, token, methodArn, now, lastFailureTime,
                   expected, response>>

CallRecordFailure(p) ==
    /\ BetweenCalls(p)
    /\ circuitBreaker.failures < MaxFailures
    /\ circuitBreaker' = recordFailure(circuitBreaker, clock)
    /\ logged' = recordFailureLogged(circuitBreaker)
    /\ pc' = [pc EXCEPT ![p] = "idle"]
    /\ UNCHANGED <<clock, tokenCache, cacheMu, token, methodArn, now,
                   lastFailureTime, expected, response>>

CallReset(p) ==
    /\ BetweenCalls(p)
    /\ circuitBreaker' = reset(circuitBreaker)
    /\ logged' = resetLogged(circuitBreaker)
    /\ pc' = [pc EXCEPT ![p] = "idle"]
    /\ UNCHANGED <<clock, tokenCache, cacheMu, token, methodArn, now,
                   lastFailureTime, expected, response>>

Breaker(procs) ==
    \/ Tick /\ Silent /\ UNCHANGED aside
    \/ \E p \in procs :
          \/ CallIsOpen(p) /\ Silent /\ UNCHANGED aside
          \/ CallRecordFailure(p) /\ UNCHANGED aside
          \/ CallReset(p) /\ UNCHANGED aside
          \/ IsOpenRead(p) /\ Silent /\ UNCHANGED aside
          \/ IsOpenSince(p) /\ Silent /\ UNCHANGED aside
          \/ IsOpenReset(p) /\ UNCHANGED aside

BreakerNext == Breaker({1})

BreakerSpec == Init /\ [][BreakerNext]_vars

\* the breaker called from several goroutines at once, as
\* TestCircuitBreaker_AutoResetRaceCondition calls it
ConcurrentBreakerNext == Breaker(Procs)

ConcurrentBreakerSpec == Init /\ [][ConcurrentBreakerNext]_vars

(***************************************************************************)
(* The token cache on its own, one access to a field at a time, as         *)
(* TestTokenCache_AtomicRead exercises it: readers take the snapshot of    *)
(* getExpectedToken (lines 231-234) under the read lock while writers      *)
(* store a token and its expiration (lines 255, 295-296) under the write   *)
(* lock.  tokenCache.mu is a sync.RWMutex: a reader holds it from its      *)
(* RLock to its RUnlock, which is where its pc says it stands.             *)
(***************************************************************************)
\* p holds the read lock
RLocked(p) == pc[p] \in {"rlocked", "rtoken", "rexpiration"}

\* p stands outside the cache
Outside(p) == pc[p] \in {"idle", "snapped"}

\* the rest of the state, which an access to the cache leaves alone
cacheFrame == <<clock, circuitBreaker, token, methodArn, now, lastFailureTime,
                expected, response, apart, logged>>

\* a reader that does not take the read lock
CacheRLock_NoLock(p) ==
    /\ Outside(p)
    /\ pc' = [pc EXCEPT ![p] = "rlocked"]
    /\ snapshot' = [snapshot EXCEPT ![p] = NoSnapshot]
    /\ UNCHANGED <<tokenCache, cacheMu, generation, cacheFrame>>

\* tokenCache.mu.RLock()
CacheRLock(p) ==
    /\ Outside(p)
    /\ cacheMu = 0
    /\ pc' = [pc EXCEPT ![p] = "rlocked"]
    /\ snapshot' = [snapshot EXCEPT ![p] = NoSnapshot]
    /\ UNCHANGED <<tokenCache, cacheMu, generation, cacheFrame>>

\* token := tokenCache.token
ReadToken(p) ==
    /\ pc[p] = "rlocked"
    /\ snapshot' = [snapshot EXCEPT ![p].token = tokenCache.token,
                                    ![p].tokenGen = generation.token]
    /\ pc' = [pc EXCEPT ![p] = "rtoken"]
    /\ UNCHANGED <<tokenCache, cacheMu, generation, cacheFrame>>

\* expiration := tokenCache.expiration
ReadExpiration(p) ==
    /\ pc[p] = "rtoken"
    /\ snapshot' = [snapshot EXCEPT ![p].expiration = tokenCache.expiration,
                                    ![p].expirationGen = generation.expiration]
    /\ pc' = [pc EXCEPT ![p] = "rexpiration"]
    /\ UNCHANGED <<tokenCache, cacheMu, generation, cacheFrame>>

\* tokenCache.mu.RUnlock()
CacheRUnlock(p) ==
    /\ pc[p] = "rexpiration"
    /\ pc' = [pc EXCEPT ![p] = "snapped"]
    /\ UNCHANGED <<tokenCache, cacheMu, generation, snapshot, cacheFrame>>

\* tokenCache.mu.Lock()
CacheWLock(p) ==
    /\ Outside(p)
    /\ generation.token < MaxGeneration
    /\ cacheMu = 0
    /\ \A q \in Procs : ~RLocked(q)
    /\ cacheMu' = p
    /\ pc' = [pc EXCEPT ![p] = "wlocked"]
    /\ UNCHANGED <<tokenCache, generation, snapshot, cacheFrame>>

\* tokenCache.token = token
WriteToken(p, v) ==
    /\ pc[p] = "wlocked"
    /\ tokenCache' = [tokenCache EXCEPT !.token = v]
    /\ generation' = [generation EXCEPT !.token = @ + 1]
    /\ pc' = [pc EXCEPT ![p] = "wtoken"]
    /\ UNCHANGED <<cacheMu, snapshot, cacheFrame>>

\* tokenCache.expiration = time.Now().Add(cacheDuration)
WriteExpiration(p) ==
    /\ pc[p] = "wtoken"
    /\ tokenCache' = [tokenCache EXCEPT !.expiration = clock + cacheDuration]
    /\ generation' = [generation EXCEPT !.expiration = @ + 1]
    /\ pc' = [pc EXCEPT ![p] = "wexpiration"]
    /\ UNCHANGED <<cacheMu, snapshot, cacheFrame>>

\* the deferred tokenCache.mu.Unlock()
CacheWUnlock(p) ==
    /\ pc[p] = "wexpiration"
    /\ cacheMu = p
    /\ cacheMu' = 0
    /\ pc' = [pc EXCEPT ![p] = "idle"]
    /\ UNCHANGED <<tokenCache, generation, snapshot, cacheFrame>>

\* a tick that leaves the cache's own variables alone
CacheTick == Tick /\ Silent /\ UNCHANGED aside

CacheNext ==
    \/ CacheTick
    \/ \E p \in Procs : CacheRLock(p)
    \/ \E p \in Procs : ReadToken(p)
    \/ \E p \in Procs : ReadExpiration(p)
    \/ \E p \in Procs : CacheRUnlock(p)
    \/ \E p \in Procs : CacheWLock(p)
    \/ \E p \in Procs, v \in {TrimSpace(w) : w \in ParamValues} \ {<< >>} :
          WriteToken(p, v)
    \/ \E p \in Procs : WriteExpiration(p)
    \/ \E p \in Procs : CacheWUnlock(p)

CacheSpec == Init /\ [][CacheNext]_vars

(***************************************************************************)
(* extractToken on its own, as the TestExtractToken tests call it: a       *)
(* header map arrives and extractToken is called on it, more than once.    *)
(* The maps give each of the names below a value or leave it out.          *)
(***************************************************************************)
CustomNames ==
    {XClientToken,
     <<"x","-","c","l","i","e","n","t","-","t","o","k","e","n">>,
     <<"X","-","C","L","I","E","N","T","-","T","O","K","E","N">>}

BearerNames ==
    {Authorization,
     <<"a","u","t","h","o","r","i","z","a","t","i","o","n">>,
     <<"A","U","T","H","O","R","I","Z","A","T","I","O","N">>}

CustomValues == {TokA, <<" ","b"," ">>, <<" "," ">>, << >>}

BearerValues ==
    {BearerPrefix \o TokA,
     BearerPrefix \o <<" ","b"," ">>,
     <<"B","e","a","r","e","r">>,
     BearerPrefix \o <<" "," "," ">>,
     <<"b","e","a","r","e","r"," ","a">>,
     <<"B","a","s","i","c"," ","a">>,
     TokA}

\* the mark of a name that the map does not hold
LeftOut == <<"(left out)">>

\* the map that holds the names a choice gives a value to
HeaderMap(choice) ==
    [k \in {n \in DOMAIN choice : choice[n] # LeftOut} |-> choice[k]]

\* maps with at most two of the names, and every way to fill them
ExtractInputs ==
    {HeaderMap(c) :
       c \in UNION {[{m, n} -> CustomValues \cup BearerValues \cup {LeftOut}] :
                      m \in CustomNames \cup BearerNames,
                      n \in CustomNames \cup BearerNames}}

\* the values a map may give a name: a custom value to a custom name, a
\* bearer value to a bearer name
WellFilled(h) ==
    \A k \in DOMAIN h :
        IF k \in CustomNames THEN h[k] \in CustomValues ELSE h[k] \in BearerValues

extractFrame == <<clock, tokenCache, cacheMu, circuitBreaker, pc, token,
                  methodArn, now, lastFailureTime, expected, response,
                  generation, snapshot, env, duration, logged,
                  hashArg, hashes>>

\* a request arrives with its header map
Request(h) ==
    /\ eventHeaders' = h
    /\ extracted' = << >>
    /\ UNCHANGED extractFrame

\* token := extractToken(event)
ExtractToken ==
    /\ Len(extracted) < MaxEvaluations
    /\ \E tok \in extractToken(eventHeaders) : extracted' = Append(extracted, tok)
    /\ UNCHANGED <<eventHeaders, extractFrame>>

ExtractNext ==
    \/ \E h \in {m \in ExtractInputs : WellFilled(m)} : Request(h)
    \/ ExtractToken

ExtractSpec == Init /\ [][ExtractNext]_vars

(***************************************************************************)
(* getCacheDuration, lines 63-72.  An int and a time.Duration are 64 bits  *)
(* wide, more than the model checker's integers, so numbers are sequences  *)
(* of decimal digits, most significant first, without leading zeros; a     *)
(* signed number is such a magnitude with a sign.                          *)
(***************************************************************************)
defaultCacheDurationSeconds == 300

\* time.Second is 10^9 nanoseconds: this many zeros after the seconds
SecondDigits == 9

DigitChars == <<"0","1","2","3","4","5","6","7","8","9">>

IsDigit(c) == \E i \in 1..10 : DigitChars[i] = c

DigitOf(c) == (CHOOSE i \in 1..10 : DigitChars[i] = c) - 1

\* the digits of a string of digit characters
Numeral(s) == [i \in 1..Len(s) |-> DigitOf(s[i])]

\* the digits of a natural number
RECURSIVE Decimal(_)
Decimal(n) == IF n < 10 THEN <<n>> ELSE Append(Decimal(n \div 10), n % 10)

RECURSIVE StripZeros(_)
StripZeros(d) == IF Len(d) > 1 /\ d[1] = 0 THEN StripZeros(Tail(d)) ELSE d

\* a < b
DecLess(a, b) ==
    \/ Len(a) < Len(b)
    \/ /\ Len(a) = Len(b)
       /\ \E i \in 1..Len(a) : a[i] < b[i] /\ \A j \in 1..(i - 1) : a[j] = b[j]

\* b with zeros in front, n digits long
Pad(b, n) == [i \in 1..n |-> IF i <= n - Len(b) THEN 0 ELSE b[i - (n - Len(b))]]

\* the first i digits of a - b, both n digits long, with a borrow into digit i
RECURSIVE SubFrom(_, _, _, _)
SubFrom(a, b, i, borrow) ==
    IF i = 0 THEN << >>
    ELSE LET x == a[i] - b[i] - borrow
         IN  Append(SubFrom(a, b, i - 1, IF x < 0 THEN 1 ELSE 0),
                    IF x < 0 THEN x + 10 ELSE x)

\* a - b, for a >= b
DecSub(a, b) == StripZeros(SubFrom(a, Pad(b, Len(a)), Len(a), 0))

\* a times 10^n
ShiftLeft(a, n) == IF a = <<0>> THEN a ELSE a \o [i \in 1..n |-> 0]

TwoTo63 == <<9,2,2,3,3,7,2,0,3,6,8,5,4,7,7,5,8,0,8>>
TwoTo64 == <<1,8,4,4,6,7,4,4,0,7,3,7,0,9,5,5,1,6,1,6>>

\* r modulo 2^64, for r below 10 * 2^64
RECURSIVE Reduce(_)
Reduce(r) == IF DecLess(r, TwoTo64) THEN r ELSE Reduce(DecSub(r, TwoTo64))

\* the first i digits of d, as a number modulo 2^64
RECURSIVE Uint64(_, _)
Uint64(d, i) ==
    IF i = 0 THEN <<0>>
    ELSE Reduce(StripZeros(Append(Uint64(d, i - 1), d[i])))

\* the int64 that holds the low 64 bits of the magnitude d: what a product
\* of int64 values is in Go when it overflows
Int64(d) ==
    LET u == Uint64(d, Len(d))
    IN  IF DecLess(u, TwoTo63)
        THEN [neg |-> FALSE, mag |-> u]
        ELSE [neg |-> TRUE, mag |-> DecSub(TwoTo64, u)]

\* strconv.Atoi: an optional sign and decimal digits, within int64
Atoi(s) ==
    LET signed == s # << >> /\ s[1] \in {"+", "-"}
        digits == IF signed THEN Tail(s) ELSE s
        syntax == digits # << >> /\ \A i \in 1..Len(digits) : IsDigit(digits[i])
        neg    == signed /\ s[1] = "-"
        mag    == StripZeros(Numeral(digits))
    IN  IF ~syntax
        THEN [err |-> TRUE, neg |-> FALSE, mag |-> <<0>>]
        ELSE IF (~neg /\ ~DecLess(mag, TwoTo63)) \/ (neg /\ DecLess(TwoTo63, mag))
        THEN [err |-> TRUE, neg |-> FALSE, mag |-> <<0>>]
        ELSE [err |-> FALSE, neg |-> neg /\ mag # <<0>>, mag |-> mag]

\* time.Duration(seconds) * time.Second
Seconds(mag) == Int64(ShiftLeft(mag, SecondDigits))

getCacheDuration(e) ==
    LET seconds == Atoi(e)
    IN  IF e # << >> /\ ~seconds.err /\ ~seconds.neg /\ seconds.mag # <<0>>
        THEN Seconds(seconds.mag)
        ELSE Seconds(Decimal(defaultCacheDurationSeconds))

\* the values of TOKEN_CACHE_TTL_SECONDS: unset or empty, every string of up
\* to three of a few characters, and numbers around the limits of 64 bits
EnvChars == {"0", "1", "6", "-", "+", "x", " "}

EnvValues ==
    {<< >>}
      \cup UNION {[1..n -> EnvChars] : n \in 1..3}
      \cup {<<"i","n","v","a","l","i","d">>,
            <<"3","6","0","0">>,
            <<"9","2","2","3","3","7","2","0","3","6">>,
            <<"9","2","2","3","3","7","2","0","3","7">>,
            <<"1","8","4","4","6","7","4","4","0","7","4">>,
            <<"9","2","2","3","3","7","2","0","3","6","8","5","4","7","7","5","8","0","8">>}

durationFrame == <<clock, tokenCache, cacheMu, circuitBreaker, pc, token,
                   methodArn, now, lastFailureTime, expected, response,
                   generation, snapshot, eventHeaders, extracted, logged,
                   hashArg, hashes>>

\* the environment the process starts in
Setenv(e) ==
    /\ env' = e
    /\ duration' = << >>
    /\ UNCHANGED durationFrame

\* init: cacheDuration = getCacheDuration()
GetCacheDuration ==
    /\ duration = << >>
    /\ duration' = <<getCacheDuration(env)>>
    /\ UNCHANGED <<env, durationFrame>>

DurationNext ==
    \/ \E e \in EnvValues : Setenv(e)
    \/ GetCacheDuration

DurationSpec == Init /\ [][DurationNext]_vars

(***************************************************************************)
(* hashToken on its own, as TestHashToken calls it: twice on each token.   *)
(***************************************************************************)
hashFrame == <<clock, tokenCache, cacheMu, circuitBreaker, pc, token,
               methodArn, now, lastFailureTime, expected, response,
               generation, snapshot, eventHeaders, extracted, env, duration,
               logged>>

\* a token to hash
Token(t) ==
    /\ hashArg' = t
    /\ hashes' = << >>
    /\ UNCHANGED hashFrame

\* principalID := hashToken(token)
HashToken ==
    /\ Len(hashes) < MaxEvaluations
    /\ hashes' = Append(hashes, hashToken(hashArg))
    /\ UNCHANGED <<hashArg, hashFrame>>

HashNext ==
    \/ \E t \in HashInputs : Token(t)
    \/ HashToken

HashSpec == Init /\ [][HashNext]_vars

(***************************************************************************)
(* What the claims speak of.                                               *)
(***************************************************************************)
\* the invocation p has returned
Done(p) == pc[p] = "done"

\* the response carries a policy statement with this effect
HasEffect(resp, effect) ==
    \E i \in 1..Len(resp.Statement) : resp.Statement[i].Effect = effect

\* getExpectedToken was called and returned a token, without error
GotToken(p) == expected[p].site # "none" /\ ~expected[p].err

\* the breaker is open: at or above the threshold and within the cool-down
BreakerOpen ==
    /\ circuitBreaker.failures >= circuitBreakerThreshold
    /\ clock - circuitBreaker.lastFailure < circuitBreakerTimeout

\* p takes a step out of the position at
Leaves(p, at) == pc[p] = at /\ pc'[p] # at

\* p takes the first step of a new invocation
Starts(p) ==
    /\ pc[p] \in {"idle", "done"}
    /\ <<pc[p], token[p], methodArn[p], expected[p], response[p]>>'
         # <<pc[p], token[p], methodArn[p], expected[p], response[p]>>

(***************************************************************************)
(* C1.  handler answers Allow only when the extracted credential is not    *)
(* empty, getExpectedToken returned no error and the credential equals the *)
(* secret it returned; a request whose credential is absent or differs     *)
(* from that secret (or for which no secret could be had) is denied.       *)
(***************************************************************************)
C1_AllowOnlyOnMatch ==
    \A p \in Procs :
        Done(p) =>
          /\ (response[p].decision.effect = "Allow" \/ HasEffect(response[p].resp, "Allow"))
               => /\ token[p] # << >>
                  /\ GotToken(p)
                  /\ token[p] = expected[p].token
          /\ (token[p] = << >> \/ ~GotToken(p) \/ token[p] # expected[p].token)
               => /\ response[p].decision.effect = "Deny"
                  /\ ~HasEffect(response[p].resp, "Allow")

\* a request is allowed on the stale secret an open breaker serves
C1_Witness ==
    \E p \in Procs :
        /\ Done(p)
        /\ HasEffect(response[p].resp, "Allow")
        /\ expected[p].site = "staleOpen"

(***************************************************************************)
(* C2.  A credential equal to the secret getExpectedToken returned is      *)
(* allowed, with principal "user-" and the first 16 hex digits of its      *)
(* SHA-256 digest and context authenticated = "true"; and a request served *)
(* from the fresh cache leaves cache and breaker as they were, so that the *)
(* same request repeated on that state gets the same decision.             *)
(***************************************************************************)
C2_MatchAllowed ==
    [][\A p \in Procs :
         /\ (~Done(p) /\ Done(p)' /\ token'[p] # << >> /\ GotToken(p)'
                /\ token'[p] = expected'[p].token)
              => response'[p].decision =
                   [principalID |-> "user-" \o Sha256Hex8(token'[p]),
                    effect      |-> "Allow",
                    context     |-> [authenticated |-> "true"]]
         /\ (Leaves(p, "read") /\ tokenCache.token = token[p]
                /\ now[p] < tokenCache.expiration)
              => /\ response'[p].decision =
                      [principalID |-> "user-" \o Sha256Hex8(token[p]),
                       effect      |-> "Allow",
                       context     |-> [authenticated |-> "true"]]
                 /\ UNCHANGED <<tokenCache, circuitBreaker, cacheMu>>]_vars

C2_Witness ==
    \E p \in Procs :
        /\ Done(p)
        /\ expected[p].site = "fresh"
        /\ token[p] = <<"b">>
        /\ response[p].decision.principalID = "user-3e23e8160039594a"

(***************************************************************************)
(* C3.  When extractToken yields no credential, handler answers Deny with  *)
(* principal "user" and errorType missing_token, and getExpectedToken is   *)
(* not called: the cache, its lock and the breaker stay as they are.       *)
(***************************************************************************)
C3_MissingToken ==
    [][\A p \in Procs :
         (Starts(p) /\ token'[p] = << >>)
           => /\ Done(p)'
              /\ response'[p].decision =
                   [principalID |-> "user",
                    effect      |-> "Deny",
                    context     |-> [errorType |-> "missing_token"]]
              /\ response'[p].err = "nil"
              /\ expected'[p] = NoReturn
              /\ UNCHANGED <<tokenCache, circuitBreaker, cacheMu>>]_vars

\* missing_token is answered while nothing is cached and an earlier call
\* failed on the store
C3_Witness ==
    \E p \in Procs :
        /\ Done(p)
        /\ token[p] = << >>
        /\ response[p].decision.context = [errorType |-> "missing_token"]
        /\ tokenCache.token = << >>
        /\ circuitBreaker.failures > 0

(***************************************************************************)
(* C4.  When a credential is present and getExpectedToken returns an       *)
(* error, handler answers Deny with errorType ssm_failure, whatever the    *)
(* credential.                                                             *)
(***************************************************************************)
C4_SSMFailure ==
    \A p \in Procs :
        (Done(p) /\ token[p] # << >> /\ expected[p].err)
          => response[p].decision =
               [principalID |-> "user",
                effect      |-> "Deny",
                context     |-> [errorType |-> "ssm_failure"]]

\* the breaker is open and nothing is cached
C4_Witness ==
    \E p \in Procs :
        /\ Done(p)
        /\ token[p] # << >>
        /\ expected[p].site = "errOpen"
        /\ HasEffect(response[p].resp, "Deny")

(***************************************************************************)
(* C5.  When a credential is present, getExpectedToken succeeds and the    *)
(* credential differs from the secret returned, handler answers Deny with  *)
(* errorType token_mismatch.                                               *)
(***************************************************************************)
C5_TokenMismatch ==
    \A p \in Procs :
        (Done(p) /\ token[p] # << >> /\ GotToken(p) /\ token[p] # expected[p].token)
          => response[p].decision =
               [principalID |-> "user",
                effect      |-> "Deny",
                context     |-> [errorType |-> "token_mismatch"]]

C5_Witness ==
    \E p \in Procs :
        /\ Done(p)
        /\ token[p] = <<"a">>
        /\ GotToken(p)
        /\ expected[p].token = <<"b">>
        /\ response[p].resp.Context = [errorType |-> "token_mismatch"]

(***************************************************************************)
(* C6.  handler never returns an error: a missing credential, a failure of *)
(* the store, an open breaker with nothing cached, an empty parameter and  *)
(* a mismatch each end in a returned Deny that carries an errorType.       *)
(***************************************************************************)
C6_NoErrorReturned ==
    \A p \in Procs :
        Done(p) =>
          /\ response[p].err = "nil"
          /\ (token[p] = << >> \/ ~GotToken(p) \/ token[p] # expected[p].token)
               => /\ response[p].decision.effect = "Deny"
                  /\ response[p].resp.Context = response[p].decision.context
                  /\ \E e \in {ErrMissingToken, ErrTokenMismatch, ErrSSMFailure} :
                        response[p].resp.Context = [errorType |-> e]

\* the parameter came back empty
C6_Witness ==
    \E p \in Procs :
        /\ Done(p)
        /\ expected[p].site = "errEmpty"
        /\ response[p].err = "nil"

(***************************************************************************)
(* C7, as stated.  For every request, an empty resource identifier         *)
(* included, the response carries exactly one policy statement, whose      *)
(* effect is Allow or Deny and whose resource is the request's.            *)
(***************************************************************************)
C7_OneStatementAlways ==
    \A p \in Procs :
        Done(p) =>
          /\ Len(response[p].resp.Statement) = 1
          /\ response[p].resp.Statement[1].Effect \in {"Allow", "Deny"}
          /\ response[p].resp.Statement[1].Resource = <<methodArn[p]>>

(***************************************************************************)
(* C7, amended.  For every request whose resource identifier is not empty  *)
(* the response carries exactly one policy statement, whose effect is the  *)
(* decision's (Allow or Deny) and whose resource is the request's; for an  *)
(* empty resource identifier it carries no statement.                      *)
(***************************************************************************)
C7_OneStatementIfResource ==
    \A p \in Procs :
        Done(p) =>
          IF methodArn[p] # ""
          THEN /\ Len(response[p].resp.Statement) = 1
               /\ response[p].resp.Statement[1].Effect \in {"Allow", "Deny"}
               /\ response[p].resp.Statement[1].Effect = response[p].decision.effect
               /\ response[p].resp.Statement[1].Resource = <<methodArn[p]>>
          ELSE response[p].resp.Statement = << >>

C7_Witness ==
    \E p \in Procs :
        /\ Done(p)
        /\ methodArn[p] # ""
        /\ response[p].resp.Statement =
             << [Action   |-> <<"execute-api:Invoke">>,
                 Effect   |-> "Allow",
                 Resource |-> <<methodArn[p]>>] >>

(***************************************************************************)
(* C8.  If the cached token is not empty and the call's now is before the  *)
(* expiration, getExpectedToken returns the cached token without error,    *)
(* starts no GetParameter call and leaves the breaker as it is, also when  *)
(* the breaker is open.                                                    *)
(***************************************************************************)
C8_FreshHit ==
    [][\A p \in Procs :
         (Leaves(p, "read") /\ tokenCache.token # << >>
            /\ now[p] < tokenCache.expiration)
           => /\ Done(p)'
              /\ expected'[p] = Return(tokenCache.token, FALSE, "fresh")
              /\ UNCHANGED <<tokenCache, circuitBreaker, cacheMu>>]_vars

\* a fresh token is served while the breaker is open
C8_Witness ==
    \E p \in Procs :
        /\ Done(p)
        /\ expected[p].site = "fresh"
        /\ BreakerOpen

(***************************************************************************)
(* C9.  When the breaker is open and the cache has expired, isOpen answers *)
(* true and getExpectedToken starts no GetParameter call: it returns the   *)
(* stale token without error if one is cached, and an error, which handler *)
(* turns into Deny, if none is.                                            *)
(***************************************************************************)
C9_OpenServesStale ==
    [][\A p \in Procs :
         /\ (Leaves(p, "since") /\ BreakerOpen) => pc'[p] = "open"
         /\ Leaves(p, "open")
              => /\ Done(p)'
                 /\ UNCHANGED <<tokenCache, circuitBreaker, cacheMu>>
                 /\ IF tokenCache.token # << >>
                    THEN expected'[p] = Return(tokenCache.token, FALSE, "staleOpen")
                    ELSE /\ expected'[p].err
                         /\ response'[p].decision.effect = "Deny"]_vars

\* the stale token is served by an open breaker
C9_Witness ==
    \E p \in Procs :
        /\ Done(p)
        /\ expected[p].site = "staleOpen"
        /\ expected[p].token = tokenCache.token
        /\ clock >= tokenCache.expiration
        /\ BreakerOpen

(***************************************************************************)
(* C10, as stated.  getExpectedToken returns an error only when nothing    *)
(* is cached: with a token in the cache, expired or not, a GetParameter    *)
(* call that fails or gives an empty or all-blank value makes it return    *)
(* the cached token without error.                                         *)
(***************************************************************************)
C10_ErrorOnlyWhenNothingCached ==
    \A p \in Procs :
        (Done(p) /\ expected[p].err) => tokenCache.token = << >>

(***************************************************************************)
(* C11, as stated.  A GetParameter call that gives an empty or all-blank   *)
(* value counts as a failure for the breaker: failures goes up by one and  *)
(* is not reset.                                                           *)
(***************************************************************************)
C11_EmptyCountsAsFailure ==
    [][\A p \in Procs :
         (Leaves(p, "fetching") /\ expected'[p].site = "errEmpty")
           => circuitBreaker'.failures = circuitBreaker.failures + 1]_vars

(***************************************************************************)
(* C12.  An empty or all-blank parameter value is never cached: the call   *)
(* that got it leaves tokenCache as it was, and tokenCache always holds    *)
(* either its initial empty value or a trimmed, non-empty value of the     *)
(* parameter.                                                              *)
(***************************************************************************)
C12_EmptyNeverCached ==
    /\ [](IF tokenCache.token = << >>
          THEN tokenCache = [token |-> << >>, expiration |-> ZeroTime]
          ELSE /\ TrimSpace(tokenCache.token) = tokenCache.token
               /\ \E v \in ParamValues : TrimSpace(v) = tokenCache.token)
    /\ [][\A p \in Procs :
            (Leaves(p, "fetching") /\ expected'[p].site = "errEmpty")
              => tokenCache' = tokenCache]_vars

\* the parameter came back empty while a token was cached, and the token
\* is still there
C12_Witness ==
    \E p \in Procs :
        /\ Done(p)
        /\ expected[p].site = "errEmpty"
        /\ tokenCache.token # << >>
        /\ clock >= tokenCache.expiration

(***************************************************************************)
(* C13.  Of the calls that run together against an empty or expired cache, *)
(* one fetches: at most one fetch is in flight at a time, and once a fetch *)
(* has stored a token at or after the instant a call captured as now, that *)
(* call returns the token in the cache without fetching and changes        *)
(* nothing.                                                                *)
(***************************************************************************)
C13_OneFetchOthersRecheck ==
    /\ [](Cardinality({p \in Procs : pc[p] = "fetching"}) <= 1)
    /\ [][\A q \in Procs :
            (/\ pc[q] \in {"read", "open", "lock"}
             /\ pc'[q] # pc[q]
             /\ tokenCache.token # << >>
             /\ tokenCache.expiration - cacheDuration >= now[q])
              => /\ Done(q)'
                 /\ expected'[q].token = tokenCache.token
                 /\ ~expected'[q].err
                 /\ UNCHANGED shared]_vars

\* one call has fetched and stored the token; the other, which had found
\* the cache stale, got it from the second look under the lock
C13_Witness ==
    \E p, q \in Procs :
        /\ p # q
        /\ Done(p) /\ expected[p].site = "refreshed"
        /\ Done(q) /\ expected[q].site = "recheck"
        /\ expected[q].token = expected[p].token
        /\ circuitBreaker.failures = 0

(***************************************************************************)
(* C14.  A new breaker has no failures; isOpen answers false while fewer   *)
(* than circuitBreakerThreshold failures are recorded, recordFailure       *)
(* counts one failure at a time and stamps it, isOpen answers true once    *)
(* the count has reached the threshold and the last failure is less than   *)
(* circuitBreakerTimeout old, and reset puts the count back to 0, where    *)
(* isOpen answers false again.                                             *)
(***************************************************************************)
C14_OpensAtThreshold ==
    /\ circuitBreaker.failures = 0
    /\ [][\A p \in Procs :
            /\ (Leaves(p, "isOpen") /\ circuitBreaker.failures < circuitBreakerThreshold)
                 => (pc'[p] = "lock" /\ circuitBreaker' = circuitBreaker)
            /\ (Leaves(p, "isOpen") /\ circuitBreaker.failures >= circuitBreakerThreshold)
                 => pc'[p] = "since"
            /\ (Leaves(p, "since") /\ BreakerOpen)
                 => (pc'[p] = "open" /\ circuitBreaker' = circuitBreaker)
            /\ circuitBreaker'.failures > circuitBreaker.failures
                 => /\ circuitBreaker'.failures = circuitBreaker.failures + 1
                    /\ circuitBreaker'.lastFailure = clock
            /\ CallReset(p) => circuitBreaker'.failures = 0]_vars

\* isOpen has answered true on exactly circuitBreakerThreshold failures
C14_Witness ==
    \E p \in Procs :
        /\ pc[p] = "open"
        /\ circuitBreaker.failures = circuitBreakerThreshold
        /\ clock - circuitBreaker.lastFailure < circuitBreakerTimeout

(***************************************************************************)
(* C15.  On an open breaker whose last failure is circuitBreakerTimeout    *)
(* old or older, isOpen answers false and leaves the count at 0; until an  *)
(* isOpen or a reset runs, the count stays at or above the threshold: the  *)
(* passing of time alone does not lower it.                                *)
(***************************************************************************)
C15_LazyResetAfterTimeout ==
    [][/\ \A p \in Procs :
            /\ (/\ Leaves(p, "since")
                 /\ circuitBreaker.failures >= circuitBreakerThreshold
                 /\ clock - circuitBreaker.lastFailure >= circuitBreakerTimeout)
                 => (pc'[p] = "reset" /\ circuitBreaker' = circuitBreaker)
            /\ (/\ Leaves(p, "reset")
                 /\ circuitBreaker.failures >= circuitBreakerThreshold
                 /\ clock - circuitBreaker.lastFailure >= circuitBreakerTimeout)
                 => (pc'[p] = "lock" /\ circuitBreaker'.failures = 0)
       /\ (/\ circuitBreaker.failures >= circuitBreakerThreshold
           /\ circuitBreaker'.failures < circuitBreakerThreshold)
            => \E p \in Procs : Leaves(p, "reset") \/ CallReset(p)]_vars

\* the timeout has passed on an open breaker, isOpen has seen it and stands
\* at its re-check under the write lock, the count still at the threshold
C15_Witness ==
    \E p \in Procs :
        /\ pc[p] = "reset"
        /\ circuitBreaker.failures >= circuitBreakerThreshold
        /\ clock - circuitBreaker.lastFailure >= circuitBreakerTimeout

(***************************************************************************)
(* C16, as stated.  While the breaker is open (failures at or above the    *)
(* threshold, last failure less than circuitBreakerTimeout old) no call    *)
(* starts a GetParameter call, whatever the interleaving, a call that      *)
(* waits for the cache's write lock included.                              *)
(***************************************************************************)
C16_NoFetchWhileOpen ==
    [][\A p \in Procs :
         (pc[p] # "fetching" /\ pc'[p] = "fetching") => ~BreakerOpen]_vars

(***************************************************************************)
(* C17.  A GetParameter call ended by its deadline or by the cancellation  *)
(* of the caller's context is handled as any other GetParameter error:     *)
(* failures goes up by one and the failure is stamped, the cache is left   *)
(* alone, the lock is released, and the call returns the stale token if    *)
(* there is one and an error if the cache is empty.                        *)
(***************************************************************************)
C17_ContextErrorIsFetchError ==
    [][\A p \in Procs : \A out \in {SSMDeadlineExceeded, SSMCanceled} :
         /\ FetchReturn(p, out) <=> FetchReturn(p, SSMError)
         /\ FetchReturn(p, out)
              => /\ circuitBreaker' = recordFailure(circuitBreaker, clock)
                 /\ circuitBreaker'.failures = circuitBreaker.failures + 1
                 /\ tokenCache' = tokenCache
                 /\ cacheMu' = 0
                 /\ Done(p)'
                 /\ expected'[p] = IF tokenCache.token # << >>
                                   THEN Return(tokenCache.token, FALSE, "staleErr")
                                   ELSE Return(<< >>, TRUE, "errFetch")]_vars

\* a fetch has ended in an error on an empty cache: the call has returned,
\* with an error, and the failure is counted
C17_Witness ==
    \E p \in Procs :
        /\ Done(p)
        /\ expected[p] = Return(<< >>, TRUE, "errFetch")
        /\ tokenCache.token = << >>
        /\ circuitBreaker = [failures |-> 1, lastFailure |-> clock]
        /\ cacheMu = 0

(***************************************************************************)
(* C18, as stated.  No lock is held while a GetParameter call is in        *)
(* flight: a call that is fetching does not hold tokenCache.mu.            *)
(***************************************************************************)
C18_NoLockDuringFetch ==
    \A p \in Procs : pc[p] = "fetching" => cacheMu # p

(***************************************************************************)
(* C19, as stated.  A call for which the cached token is non-empty but     *)
(* expired, and which stands at one of its accesses to the cache while     *)
(* another call is fetching, can go on without waiting for that fetch to   *)
(* end.                                                                    *)
(***************************************************************************)
C19_StaleServedWithoutBlocking ==
    \A q \in Procs :
        (/\ pc[q] \in {"read", "open", "lock"}
         /\ tokenCache.token # << >>
         /\ now[q] >= tokenCache.expiration
         /\ \E p \in Procs \ {q} : pc[p] = "fetching")
          => ENABLED (CacheRead(q) \/ OpenRead(q) \/ CacheLock(q))

\* how far into getExpectedToken a position is
Stage(at) ==
    CASE at = "read"     -> 1
      [] at = "isOpen"   -> 2
      [] at = "since"    -> 3
      [] at = "reset"    -> 4
      [] at = "open"     -> 5
      [] at = "lock"     -> 5
      [] at = "fetching" -> 6
      [] OTHER           -> 0

(***************************************************************************)
(* C20.  A call makes at most one GetParameter call: a call only moves     *)
(* forward through getExpectedToken, so it is at GetParameter at most      *)
(* once, and when GetParameter ends, whatever it gave, the call returns.   *)
(***************************************************************************)
C20_AtMostOneFetch ==
    [][\A p \in Procs :
         /\ pc'[p] # pc[p]
              => \/ pc'[p] = "done"
                 \/ pc[p] \in {"idle", "done"} /\ pc'[p] = "read"
                 \/ pc[p] \notin {"idle", "done"} /\ Stage(pc'[p]) > Stage(pc[p])
         /\ Leaves(p, "fetching") => Done(p)']_vars

\* a call whose one fetch has failed has returned, with the stale token
C20_Witness ==
    \E p \in Procs :
        /\ Done(p)
        /\ expected[p].site = "staleErr"
        /\ circuitBreaker.failures >= 1
        /\ \A q \in Procs : pc[q] # "fetching"

(***************************************************************************)
(* C21.  The token and the expiration a reader has captured under the read *)
(* lock come from the same write of the cache, whatever writers do         *)
(* meanwhile, and two readers that captured the same write hold the same   *)
(* pair.                                                                   *)
(***************************************************************************)
C21_NoTornRead ==
    /\ \A p \in Procs :
          pc[p] \in {"rexpiration", "snapped"}
            => snapshot[p].tokenGen = snapshot[p].expirationGen
    /\ \A p, q \in Procs :
          (/\ pc[p] \in {"rexpiration", "snapped"}
           /\ pc[q] \in {"rexpiration", "snapped"}
           /\ snapshot[p].tokenGen = snapshot[q].tokenGen)
            => /\ snapshot[p].token = snapshot[q].token
               /\ snapshot[p].expiration = snapshot[q].expiration

\* a reader holds the pair of the first write while the cache already holds
\* the second, with another token and another expiration
C21_Witness ==
    \E p \in Procs :
        /\ pc[p] = "snapped"
        /\ snapshot[p].tokenGen = 1
        /\ generation = [token |-> 2, expiration |-> 2]
        /\ tokenCache.token # snapshot[p].token
        /\ tokenCache.expiration # snapshot[p].expiration

\* the non-empty trimmed values the map gives to names that fold to
\* X-Client-Token
CustomCredentials ==
    {TrimSpace(eventHeaders[k]) :
       k \in {n \in DOMAIN eventHeaders : EqualFold(n, XClientToken)}} \ {<< >>}

(***************************************************************************)
(* C22.  When the map gives the custom header a value that is not empty    *)
(* after trimming, extractToken returns that trimmed value, whatever the   *)
(* map holds under Authorization; with the custom header held once, that   *)
(* is the one value it has.                                                *)
(***************************************************************************)
C22_CustomTakesPrecedence ==
    \A i \in DOMAIN extracted :
        /\ CustomCredentials # {} => extracted[i] \in CustomCredentials
        /\ \A k \in DOMAIN eventHeaders :
              (/\ EqualFold(k, XClientToken)
               /\ \A n \in DOMAIN eventHeaders \ {k} : ~EqualFold(n, XClientToken)
               /\ TrimSpace(eventHeaders[k]) # << >>)
                => extracted[i] = TrimSpace(eventHeaders[k])

\* both headers carry a credential, and the custom one, trimmed, came back
C22_Witness ==
    /\ DOMAIN eventHeaders = {XClientToken, Authorization}
    /\ eventHeaders[XClientToken] = <<" ","b"," ">>
    /\ eventHeaders[Authorization] = BearerPrefix \o TokA
    /\ extracted = <<TokB>>

(***************************************************************************)
(* C23, as stated.  The name of either header is matched whatever its      *)
(* case: for a map that holds one header, under any casing of              *)
(* X-Client-Token or of Authorization, extractToken returns what it        *)
(* returns when the same value is held under the canonical casing.         *)
(***************************************************************************)
C23_NamesMatchedIgnoringCase ==
    \A i \in DOMAIN extracted : \A k \in DOMAIN eventHeaders :
        DOMAIN eventHeaders = {k}
          => /\ EqualFold(k, XClientToken)
                  => extracted[i] \in extractToken(XClientToken :> eventHeaders[k])
             /\ EqualFold(k, Authorization)
                  => extracted[i] \in extractToken(Authorization :> eventHeaders[k])

(***************************************************************************)
(* C24.  With no credential in the custom header, the value held under     *)
(* Authorization gives a credential only if it starts with "Bearer " and   *)
(* something is left of the rest after trimming, and the credential is     *)
(* that trimmed rest: "Bearer a" gives "a", "Bearer  b " gives "b", and    *)
(* "Bearer", "Bearer" and blanks, "bearer a", "Basic a" and "a" give       *)
(* nothing.                                                                *)
(***************************************************************************)
C24_BearerPrefixExact ==
    \A i \in DOMAIN extracted :
        (CustomCredentials = {} /\ Authorization \in DOMAIN eventHeaders)
          => LET auth == eventHeaders[Authorization]
             IN  /\ extracted[i] # << >> => SubSeq(auth, 1, 7) = BearerPrefix
                 /\ CASE auth = BearerPrefix \o TokA -> extracted[i] = TokA
                      [] auth = BearerPrefix \o <<" ","b"," ">> -> extracted[i] = TokB
                      [] OTHER -> extracted[i] = << >>

\* the lower-case scheme has been turned down
C24_Witness ==
    /\ DOMAIN eventHeaders = {Authorization}
    /\ eventHeaders[Authorization] = <<"b","e","a","r","e","r"," ","a">>
    /\ extracted = << << >> >>

(***************************************************************************)
(* C25, as stated.  extractToken is deterministic: two calls on the same   *)
(* header map return the same credential, also when the map holds the      *)
(* custom header under several casings with different values.              *)
(***************************************************************************)
C25_Deterministic ==
    \A i, j \in DOMAIN extracted : extracted[i] = extracted[j]

\* TOKEN_CACHE_TTL_SECONDS is written as a positive integer
PositiveInteger(e) ==
    /\ e # << >>
    /\ \A i \in 1..Len(e) : IsDigit(e[i])
    /\ \E i \in 1..Len(e) : e[i] # "0"

\* TOKEN_CACHE_TTL_SECONDS is unset or empty, not a number, zero or negative
NoPositiveInteger(e) ==
    \/ e = << >>
    \/ \E i \in 1..Len(e) : ~IsDigit(e[i]) /\ e[i] \notin {"+", "-"}
    \/ \A i \in 1..Len(e) : e[i] = "0"
    \/ e[1] = "-" /\ Len(e) > 1 /\ \A i \in 2..Len(e) : IsDigit(e[i])

(***************************************************************************)
(* C26, as stated.  getCacheDuration returns N seconds when                *)
(* TOKEN_CACHE_TTL_SECONDS is a positive integer N, and 300 seconds when   *)
(* it is unset, empty, not a number, zero or negative; what it returns is  *)
(* always above zero.                                                      *)
(***************************************************************************)
C26_PositiveTTL ==
    \A i \in DOMAIN duration :
        /\ PositiveInteger(env)
             => duration[i] = [neg |-> FALSE,
                               mag |-> StripZeros(Numeral(env)) \o <<0,0,0,0,0,0,0,0,0>>]
        /\ NoPositiveInteger(env)
             => duration[i] = [neg |-> FALSE, mag |-> <<3,0,0,0,0,0,0,0,0,0,0,0>>]
        /\ ~duration[i].neg /\ duration[i].mag # <<0>>

(***************************************************************************)
(* C27.  With nothing else running on the breaker, isOpen answers true     *)
(* exactly when failures is at or above the threshold and less than        *)
(* circuitBreakerTimeout has passed since lastFailure, the time being      *)
(* taken when isOpen computes time.Since.                                  *)
(***************************************************************************)
C27_OpenIffCountAndTime ==
    [][\A p \in Procs :
         /\ Leaves(p, "isOpen")
              => IF circuitBreaker.failures >= circuitBreakerThreshold
                 THEN pc'[p] = "since"
                 ELSE pc'[p] = "lock" /\ ~BreakerOpen
         /\ Leaves(p, "since")
              => /\ pc'[p] \in {"open", "reset"}
                 /\ pc'[p] = "open" <=> BreakerOpen
         /\ Leaves(p, "reset") => pc'[p] = "lock" /\ ~BreakerOpen]_vars

\* isOpen has answered true with more failures than the threshold and one
\* clock unit of the timeout left
C27_Witness ==
    \E p \in Procs :
        /\ pc[p] = "open"
        /\ circuitBreaker.failures > circuitBreakerThreshold
        /\ clock - circuitBreaker.lastFailure = circuitBreakerTimeout - 1

(***************************************************************************)
(* C28, as stated.  When isOpen, the timeout passed, lets a probe through, *)
(* the failure of that probe opens the circuit again: isOpen leaves the    *)
(* breaker such that the one recordFailure of the probe puts failures at   *)
(* or above the threshold, so that the next isOpen answers true.           *)
(***************************************************************************)
C28_FailedProbeReopens ==
    [][\A p \in Procs :
         (/\ Leaves(p, "reset")
          /\ circuitBreaker.failures >= circuitBreakerThreshold
          /\ clock - circuitBreaker.lastFailure >= circuitBreakerTimeout)
           => ~isOpenBelowThreshold(recordFailure(circuitBreaker', clock'))]_vars

(***************************************************************************)
(* C29.  Of the isOpen calls that run together once the timeout has        *)
(* passed, each one that saw it passed answers false; the one that finds   *)
(* the count still at the threshold under the write lock clears it, and    *)
(* the others, finding it cleared, leave the breaker as it is, so that the *)
(* count is 0 when they have returned.                                     *)
(***************************************************************************)
C29_ConcurrentResetOnce ==
    [][\A p \in Procs :
         /\ (Leaves(p, "since") /\ clock - lastFailureTime[p] >= circuitBreakerTimeout)
              => pc'[p] = "reset"
         /\ Leaves(p, "reset")
              => /\ pc'[p] = "lock"
                 /\ IF /\ circuitBreaker.failures >= circuitBreakerThreshold
                       /\ clock - circuitBreaker.lastFailure >= circuitBreakerTimeout
                    THEN circuitBreaker' = [circuitBreaker EXCEPT !.failures = 0]
                    ELSE circuitBreaker' = circuitBreaker]_vars

\* two calls saw the timeout passed; the count is cleared, one call has
\* returned false and the other stands at its re-check
C29_Witness ==
    \E p, q \in Procs :
        /\ pc[p] = "lock"
        /\ pc[q] = "reset"
        /\ circuitBreaker.failures = 0
        /\ clock - circuitBreaker.lastFailure >= circuitBreakerTimeout

(***************************************************************************)
(* C30.  isOpen changes the count only when, under the write lock, the     *)
(* count is at or above the threshold and circuitBreakerTimeout has passed *)
(* since the lastFailure of that moment: a failure recorded after isOpen   *)
(* read the breaker and before it took the write lock is not erased.       *)
(***************************************************************************)
C30_ResetRechecksUnderLock ==
    [][\A p \in Procs :
         Leaves(p, "reset")
           => /\ circuitBreaker'.lastFailure = circuitBreaker.lastFailure
              /\ circuitBreaker'.failures # circuitBreaker.failures
                   => /\ circuitBreaker.failures >= circuitBreakerThreshold
                      /\ clock - circuitBreaker.lastFailure >= circuitBreakerTimeout
              /\ clock - circuitBreaker.lastFailure < circuitBreakerTimeout
                   => circuitBreaker' = circuitBreaker]_vars

\* a call saw the timeout passed and stands before the write lock, and a
\* failure has been recorded since: the breaker is open again
C30_Witness ==
    \E p \in Procs :
        /\ pc[p] = "reset"
        /\ circuitBreaker.failures > circuitBreakerThreshold
        /\ clock - circuitBreaker.lastFailure < circuitBreakerTimeout

(***************************************************************************)
(* C31.  Each recordFailure call adds exactly one to failures and sets     *)
(* lastFailure to the time of the call, in one step under the breaker's    *)
(* lock; while less than circuitBreakerTimeout has passed since            *)
(* lastFailure, the isOpen calls that run in between leave the breaker as  *)
(* it is, so that no increment is lost, and with failures at or above the  *)
(* threshold after the call the breaker is open.                           *)
(***************************************************************************)
C31_NoLostFailure ==
    [][/\ \A p \in Procs :
            CallRecordFailure(p)
              => /\ circuitBreaker'.failures = circuitBreaker.failures + 1
                 /\ circuitBreaker'.lastFailure = clock
                 /\ circuitBreaker'.failures >= circuitBreakerThreshold
                      => BreakerOpen'
       /\ \A p \in Procs :
            /\ clock - circuitBreaker.lastFailure < circuitBreakerTimeout
            /\ \/ CallIsOpen(p)
               \/ Leaves(p, "isOpen") \/ Leaves(p, "since") \/ Leaves(p, "reset")
            => circuitBreaker' = circuitBreaker]_vars

\* failures went past the threshold at this instant while another call of
\* isOpen, begun when the timeout had passed, stands before its write lock
C31_Witness ==
    \E p, q \in Procs :
        /\ p # q
        /\ pc[p] = "idle"
        /\ pc[q] = "reset"
        /\ circuitBreaker.failures > circuitBreakerThreshold
        /\ circuitBreaker.lastFailure = clock
        /\ clock >= circuitBreakerTimeout

\* the latest step wrote the breaker's OPENED line
WroteOpened == \E i \in 1..Len(logged) : logged[i] = LogOpened

(***************************************************************************)
(* C32.  The OPENED line is written by exactly the recordFailure call that *)
(* takes failures from one below the threshold to the threshold: no        *)
(* further failure at or above the threshold writes it, and no other step  *)
(* does, so that it is written again only after the count was cleared and  *)
(* has climbed to the threshold anew.                                      *)
(***************************************************************************)
C32_OpenedOnTheEdge ==
    [][WroteOpened' <=> /\ circuitBreaker.failures = circuitBreakerThreshold - 1
                        /\ circuitBreaker'.failures = circuitBreakerThreshold]_vars

\* the breaker has just opened, at an instant when an opening before it
\* would have timed out
C32_Witness ==
    /\ WroteOpened
    /\ circuitBreaker.failures = circuitBreakerThreshold
    /\ circuitBreaker.lastFailure = clock
    /\ clock > circuitBreakerTimeout

\* GetParameter handed back a value that is not empty once trimmed
Secret(out) == ~out.err /\ TrimSpace(out.value) # << >>

(***************************************************************************)
(* C33.  When the GetParameter call of getExpectedToken returns a secret   *)
(* that is not empty, the call leaves failures at 0 whatever it was, the   *)
(* cache holding the trimmed secret with the expiration at the time of the *)
(* write plus cacheDuration, and it returns that secret without error; the *)
(* breaker is then closed.                                                 *)
(***************************************************************************)
C33_SuccessClosesAndCaches ==
    [][\A p \in Procs, out \in Outputs :
         (FetchReturn(p, out) /\ Secret(out))
           => /\ circuitBreaker'.failures = 0
              /\ ~BreakerOpen'
              /\ tokenCache' = [token      |-> TrimSpace(out.value),
                                expiration |-> clock + cacheDuration]
              /\ expected'[p].token = TrimSpace(out.value)
              /\ ~expected'[p].err]_vars

\* a fetch made after failures, the timeout passed since the last of them,
\* has returned the secret that came padded with white space
C33_Witness ==
    \E p \in Procs :
        /\ Done(p)
        /\ expected[p].site = "refreshed"
        /\ expected[p].token = TokB
        /\ tokenCache = [token |-> TokB, expiration |-> clock + cacheDuration]
        /\ circuitBreaker.failures = 0
        /\ circuitBreaker.lastFailure > ZeroTime
        /\ clock - circuitBreaker.lastFailure >= circuitBreakerTimeout

(***************************************************************************)
(* C34.  Invocations running together do not deadlock.  The write lock of  *)
(* the cache is held only across the fetch, by an invocation that can      *)
(* always take its next step; the breaker's functions, which take the      *)
(* breaker's lock, never wait for the cache; and whoever waits for the     *)
(* cache can go on once it is free.  So, every GetParameter call returning *)
(* and the goroutines being scheduled fairly, every invocation that has    *)
(* begun returns its decision.                                             *)
(***************************************************************************)
C34_EveryInvocationReturns ==
    /\ [](\A p \in Procs :
            /\ cacheMu = p => pc[p] = "fetching" /\ ENABLED Runs(p)
            /\ pc[p] \in {"isOpen", "since", "reset"} => ENABLED Runs(p)
            /\ pc[p] \in {"read", "open", "lock"}
                 => (cacheMu = 0 => ENABLED Runs(p)))
    /\ \A p \in Procs : ~(pc[p] \in {"idle", "done"}) ~> Done(p)

\* one invocation waits for the write lock while the other holds it across
\* its fetch
C34_Witness ==
    \E p, q \in Procs :
        /\ pc[p] = "lock"
        /\ pc[q] = "fetching"
        /\ cacheMu = q

\* the step hands the invocation p a response that allows
Allows(p) ==
    /\ response'[p] # response[p]
    /\ \/ response'[p].decision.effect = "Allow"
       \/ HasEffect(response'[p].resp, "Allow")

(***************************************************************************)
(* C35.  A request is allowed only on a secret the store returned.  The    *)
(* cache starts empty and its token changes only in a step in which        *)
(* GetParameter returns a value, to that value trimmed and not empty; and  *)
(* the credential of an allowed request is the token the cache holds as    *)
(* the decision is made.  So while no fetch has returned a secret, the     *)
(* cache is empty and nothing has been allowed, whether the breaker is     *)
(* open or closed.                                                         *)
(***************************************************************************)
C35_AllowBackedByStore ==
    /\ tokenCache.token = << >>
    /\ [][/\ tokenCache'.token # tokenCache.token
              => \E p \in Procs, out \in Outputs :
                     /\ FetchReturn(p, out)
                     /\ Secret(out)
                     /\ tokenCache'.token = TrimSpace(out.value)
          /\ \A p \in Procs :
                Allows(p) => /\ tokenCache'.token # << >>
                             /\ token'[p] = tokenCache'.token]_vars
    /\ [](tokenCache.token = << >>
            => \A p \in Procs :
                 /\ response[p].decision.effect # "Allow"
                 /\ ~HasEffect(response[p].resp, "Allow"))

\* with the breaker open and nothing ever cached, a request that carried a
\* credential has been denied
C35_Witness ==
    \E p \in Procs :
        /\ Done(p)
        /\ expected[p].site = "errOpen"
        /\ token[p] = TokA
        /\ tokenCache.token = << >>
        /\ BreakerOpen
        /\ response[p].decision.effect = "Deny"

(***************************************************************************)
(* C36.  tokenCache.token and tokenCache.expiration change only in a step  *)
(* in which GetParameter returns a value that is not empty once trimmed:   *)
(* the return from the fresh cache, the return with the breaker open and   *)
(* every failed or empty fetch leave both as they were, a stale token      *)
(* served keeps its expiration, and a token once cached is never replaced  *)
(* by the empty one.                                                       *)
(***************************************************************************)
C36_CacheWrittenOnlyOnSuccess ==
    [][/\ tokenCache' # tokenCache
          => \E p \in Procs, out \in Outputs : FetchReturn(p, out) /\ Secret(out)
       /\ \A p \in Procs :
            \/ Leaves(p, "read")
            \/ Leaves(p, "open")
            \/ \E out \in Outputs : FetchReturn(p, out) /\ ~Secret(out)
            => tokenCache' = tokenCache
       /\ tokenCache.token # << >> => tokenCache'.token # << >>]_vars

\* an open breaker has served the cached token, which had expired and
\* stays expired
C36_Witness ==
    \E p \in Procs :
        /\ Done(p)
        /\ expected[p].site = "staleOpen"
        /\ tokenCache.token # << >>
        /\ tokenCache.expiration < clock

(***************************************************************************)
(* C37.  A getExpectedToken call begun at or after the cached expiration   *)
(* does not return from the cache: it goes on to the breaker and, the      *)
(* breaker closed and the cache still expired under the write lock, to     *)
(* GetParameter.  When that returns a secret, the call returns this secret *)
(* and caches it in place of the old one, and handler decides on it: the   *)
(* credential equal to it is allowed and any other, the old secret among   *)
(* them, is denied with token_mismatch.                                    *)
(***************************************************************************)
C37_RotationPickedUp ==
    [][\A p \in Procs :
         /\ (Leaves(p, "read") /\ now[p] >= tokenCache.expiration)
              => pc'[p] = "isOpen"
         /\ (Leaves(p, "lock") /\ now[p] >= tokenCache.expiration)
              => pc'[p] = "fetching"
         /\ \A out \in Outputs :
              (FetchReturn(p, out) /\ Secret(out))
                => /\ expected'[p].token = TrimSpace(out.value)
                   /\ ~expected'[p].err
                   /\ tokenCache'.token = TrimSpace(out.value)
                   /\ token[p] = TrimSpace(out.value)
                        => response'[p].decision.effect = "Allow"
                   /\ token[p] # TrimSpace(out.value)
                        => /\ response'[p].decision.effect = "Deny"
                           /\ response'[p].decision.context
                                = [errorType |-> ErrTokenMismatch]]_vars

\* one invocation was allowed on a credential while it was the secret, and
\* another, fetching after the store had changed, is denied on the same
\* credential
C37_Witness ==
    \E p, q \in Procs :
        /\ Done(p) /\ Done(q)
        /\ token[p] = token[q]
        /\ response[q].decision.effect = "Allow"
        /\ expected[p].site = "refreshed"
        /\ expected[p].token # token[p]
        /\ tokenCache.token = expected[p].token
        /\ response[p].decision.effect = "Deny"
        /\ response[p].decision.context = [errorType |-> ErrTokenMismatch]

\* c is one of the sixteen hexadecimal digits, in lower case
IsHex(c) == \E i \in 1..16 : HexDigits[i] = c

(***************************************************************************)
(* C38.  Whatever the token, the empty one included, hashToken returns     *)
(* "user-" followed by exactly 16 hexadecimal digits, 21 characters in     *)
(* all, and it returns the same for the same token every time.             *)
(***************************************************************************)
C38_HashFixedFormat ==
    \A i \in 1..Len(hashes) :
        /\ Len(hashes[i]) = 21
        /\ SubSeq(hashes[i], 1, 5) = <<"u","s","e","r","-">>
        /\ \A k \in 6..Len(hashes[i]) : IsHex(hashes[i][k])
        /\ \A j \in 1..Len(hashes) : hashes[j] = hashes[i]

\* hashToken has been called twice on the empty token, whose digest starts
\* e3b0c442
C38_Witness ==
    /\ hashArg = << >>
    /\ Len(hashes) = 2
    /\ SubSeq(hashes[1], 6, 13) = <<"e","3","b","0","c","4","4","2">>

====
